---- MODULE Spec2Model ----
(***************************************************************************)
(* The call-management session of the voice-agent dashboard: the           *)
(* CallTrigger component (src/unnamed/part_000) with the state it shares   *)
(* with App (agentConfig, callResults), the results panel CallResults, and *)
(* the WebCallInterface component it renders for a web call.               *)
(*                                                                         *)
(* JavaScript runs one handler at a time; an async handler runs up to its  *)
(* next `await` of a network request and is resumed by the response.  Each *)
(* action below is one such run-to-completion step.  The values a handler  *)
(* read from React state when it was invoked stay those of its closure, so *)
(* every pending handler carries the snapshot it was invoked with.         *)
(*                                                                         *)
(* Text is a sequence of one-character strings wherever the code inspects  *)
(* characters (call ids, phone numbers); other texts are atomic strings.   *)
(***************************************************************************)
EXTENDS Integers, Sequences, FiniteSets, TLC

VARIABLES
    driverInfo,         \* useState {name, phone, loadNumber}
    agentConfig,        \* App state {prompt, logic}, a prop of CallTrigger
    callResults,        \* App state, written through setCallResults
    isCallInProgress,
    currentCallId,
    isFetchingResults,
    manualCallId,
    isSyncing,
    showManualLookup,
    alert,              \* the alert() raised by the latest step, NoAlert if none
    startReq,           \* the pending createCall request of startTestCall
    polls,              \* one record per pollForCallCompletion scheduled
    fetches,            \* fetchCallResults invocations in flight
    lookups,            \* manualFetchResults invocations in flight
    syncReq,            \* the pending sync request of syncCallFromRetell
    web,                \* the WebCallInterface component and the SDK it loads
    agent_prompts       \* the rows of the table agent_prompts, and the
                        \* outcome of the latest statement on it

vars == <<driverInfo, agentConfig, callResults, isCallInProgress, currentCallId,
          isFetchingResults, manualCallId, isSyncing, showManualLookup, alert,
          startReq, polls, fetches, lookups, syncReq, web, agent_prompts>>

----------------------------------------------------------------------------
(* Bounds of the exploration.                                              *)

MaxCalls == 2           \* calls started in Spec
MaxSessionTicks == 2    \* ticks explored per poll loop in Spec
MaxLookupCalls == 1     \* calls started in SpecLookup
MaxLookupTicks == 1     \* ticks explored per poll loop in SpecLookup
MaxExtraTicks == 2      \* ticks explored past maxAttempts in SpecPoll
MaxInFlight == 2        \* status requests of one poll loop in flight
MaxFetches == 1         \* fetchCallResults invocations in flight
MaxLookups == 1         \* manualFetchResults invocations in flight
MaxClients == 3         \* SDK clients constructed in SpecWeb
MaxBusyLookups == 2     \* manualFetchResults invocations in flight in SpecBusy
MaxRows == 3            \* rows of agent_prompts in SpecSchema

----------------------------------------------------------------------------
(* Values.                                                                 *)

Null == <<"null">>              \* null: no character sequence equals it
Undefined == "undefined"        \* a field absent from a JSON body
NoResult == [null |-> TRUE]     \* callResults = null
None == [pending |-> FALSE]     \* no request pending

\* JavaScript truthiness of a text that may be null or absent
Truthy(s) == s # Null /\ s # <<>>          \* character sequences
TruthyStr(s) == s # "" /\ s # Undefined    \* atomic strings

\* an alert: its fixed text and the texts interpolated into it, each a
\* sequence of pieces
NoAlert == [msg |-> "", detail |-> <<>>]
Alert(m, d) == [msg |-> m, detail |-> d]

MsgFillDriver == "Please fill in all driver information fields"
MsgConfigure == "Please configure the agent first"
MsgInitiated == "Web call initiated successfully!"
MsgCallFailed == "Call failed"
MsgLonger == "Call is taking longer than expected. Please check the call status manually."
MsgUnable == "Unable to get call status. Please try again later."
MsgEnterId == "Please enter a call ID or start a new call first."
MsgFetched == "Call results fetched successfully!"
MsgStillActive == "Call is still active. Please wait for the call to complete before fetching results."
MsgCheckFailed == "Failed to check call status. Please verify the call ID is correct."
MsgSynced == "Call synced successfully from Retell AI to database!"
MsgSyncFailed == "Failed to sync call"

Digits == {"0", "1", "2", "3", "4", "5", "6", "7", "8", "9"}
IsSpace(c) == c \in {" ", "\t", "\n", "\r"}

RECURSIVE TrimLeft(_)
TrimLeft(s) ==
    IF s # <<>> /\ IsSpace(Head(s)) THEN TrimLeft(Tail(s)) ELSE s

RECURSIVE TrimRight(_)
TrimRight(s) ==
    IF s # <<>> /\ IsSpace(s[Len(s)])
    THEN TrimRight(SubSeq(s, 1, Len(s) - 1))
    ELSE s

\* String.prototype.trim
Trim(s) == TrimRight(TrimLeft(s))

StartsWith(s, p) == Len(s) >= Len(p) /\ SubSeq(s, 1, Len(p)) = p

\* formatPhoneNumber with the 03 rule dropping the 0 without adding 92
formatPhoneNumberDropZero(phone) ==
    LET digitsOnly == SelectSeq(phone, LAMBDA c : c \in Digits)
    IN  IF StartsWith(digitsOnly, <<"9", "2">>)
        THEN <<"+">> \o digitsOnly
        ELSE IF StartsWith(digitsOnly, <<"0", "3">>) /\ Len(digitsOnly) = 11
        THEN <<"+">> \o SubSeq(digitsOnly, 2, Len(digitsOnly))
        ELSE IF Len(digitsOnly) = 10 /\ StartsWith(digitsOnly, <<"3">>)
        THEN <<"+", "9", "2">> \o digitsOnly
        ELSE IF digitsOnly # <<>> THEN <<"+">> \o digitsOnly ELSE <<>>

\* formatPhoneNumber without the length test of the 03 rule
formatPhoneNumberAnyLength(phone) ==
    LET digitsOnly == SelectSeq(phone, LAMBDA c : c \in Digits)
    IN  IF StartsWith(digitsOnly, <<"9", "2">>)
        THEN <<"+">> \o digitsOnly
        ELSE IF StartsWith(digitsOnly, <<"0", "3">>)
        THEN <<"+", "9", "2">> \o SubSeq(digitsOnly, 2, Len(digitsOnly))
        ELSE IF Len(digitsOnly) = 10 /\ StartsWith(digitsOnly, <<"3">>)
        THEN <<"+", "9", "2">> \o digitsOnly
        ELSE IF digitsOnly # <<>> THEN <<"+">> \o digitsOnly ELSE <<>>

formatPhoneNumber(phone) ==
    LET digitsOnly == SelectSeq(phone, LAMBDA c : c \in Digits)
    IN  IF StartsWith(digitsOnly, <<"9", "2">>)
        THEN <<"+">> \o digitsOnly
        ELSE IF StartsWith(digitsOnly, <<"0", "3">>) /\ Len(digitsOnly) = 11
        THEN <<"+", "9", "2">> \o SubSeq(digitsOnly, 2, Len(digitsOnly))
        ELSE IF Len(digitsOnly) = 10 /\ StartsWith(digitsOnly, <<"3">>)
        THEN <<"+", "9", "2">> \o digitsOnly
        ELSE IF digitsOnly # <<>> THEN <<"+">> \o digitsOnly ELSE <<>>

----------------------------------------------------------------------------
(* What the user types and what the backend answers.                       *)

\* every field starts empty; the name is also cleared again
NameInputs == {"", "Ali"}
LoadInputs == {"L1"}
PhoneInputs == {<<"0", "3", "0", "0", "1", "2", "3", "4", "5", "6", "7">>}
ConfigInputs == {"cfg"}
ManualInputs == {<<>>, <<" ">>, <<"a">>, <<" ", "b", " ">>}

\* the id the backend gives the n-th call it creates
CallIdOf(n) == IF n = 1 THEN <<"a">> ELSE IF n = 2 THEN <<"b">> ELSE <<"c">>
TokenOf(n) == <<"t">> \o CallIdOf(n)

\* POST /api/call/start: a body with success, a body without (with or
\* without an error text), or a rejected request
CreateAnswers ==
    { [kind |-> "ok", error |-> Undefined],
      [kind |-> "refused", error |-> "quota exceeded"],
      [kind |-> "refused", error |-> Undefined],
      [kind |-> "throw", error |-> "Failed to fetch"] }

\* GET /api/call/{id}/status: the status field of the body (Undefined when
\* the body has none, as an error body), or a rejected request
Throw == "throw"
StatusAnswers == {"active", "completed", "ended", Undefined, Throw}
IsTerminal(status) == status = "completed" \/ status = "ended"

----------------------------------------------------------------------------
(* WebCallInterface: the component state, the ref to the SDK client, and   *)
(* what the page holds of the SDK.  Clients are numbered in the order of   *)
(* their construction; 0 is no client.                                     *)

\* the table agent_prompts as the migration creates it
NoRows == [rows |-> {}, error |-> "none"]

NoClient == 0
NoError == "null"
ErrScript == "Failed to load Retell SDK script"
ErrNoGlobal == "Failed to load Retell SDK - RetellWebClient not available"
ErrNotLoaded == "Retell SDK not loaded. Please refresh the page and try again."
ErrStartCall == "Failed to start call"
ErrCall == "Call error"
ErrEndCall == "Failed to end call properly"

\* mounted: the component is rendered.  global: window.RetellWebClient is
\* defined.  script: the script element the effect added ("none" when there
\* is none, else "loading", "loaded" or "failed").  timer: the setTimeout of
\* line 44 is pending.  ref: retellWebClientRef.current.  made: clients
\* constructed so far.  bare: the clients constructed without event
\* handlers (line 138).  connecting: the client whose startCall is pending.
\* live: the client with a call in progress.
NoWebCall ==
    [mounted |-> FALSE, global |-> FALSE, script |-> "none", timer |-> FALSE,
     ref |-> NoClient, made |-> 0, bare |-> {}, connecting |-> NoClient,
     live |-> NoClient,
     isConnecting |-> FALSE, isConnected |-> FALSE, callStatus |-> "ready",
     error |-> NoError]

\* callResults.access_token &&, the condition under which CallResults
\* renders WebCallInterface
HasToken(results) == results # NoResult /\ "access_token" \in DOMAIN results

\* initializeRetellClient, lines 63-108, with window.RetellWebClient defined
initializeRetellClient(w) ==
    [w EXCEPT !.made = @ + 1, !.ref = w.made + 1]

\* loadRetellSDK, lines 14-61.  The only script element of the SDK is the
\* one an earlier run of the effect added, and its cleanup has removed it.
loadRetellSDK(w) ==
    IF w.global THEN initializeRetellClient(w)
    ELSE [w EXCEPT !.script = "loading"]

\* stopCall() on client c
Stopped(w, c) ==
    [w EXCEPT !.live = IF @ = c THEN NoClient ELSE @,
              !.connecting = IF @ = c THEN NoClient ELSE @]

\* the cleanup of the effect with a stopCall that throws
EffectCleanupAborting(w, stopFails) ==
    IF w.ref # NoClient /\ stopFails THEN w
    ELSE [(IF w.ref # NoClient THEN Stopped(w, w.ref) ELSE w)
             EXCEPT !.script = "none"]

\* the cleanup of the effect, lines 114-128: stopCall() of the client in
\* the ref, which stops the call or throws (stopFails) and is caught, then
\* the removal of the script element
EffectCleanup(w, stopFails) ==
    [(IF w.ref # NoClient /\ ~stopFails THEN Stopped(w, w.ref) ELSE w)
        EXCEPT !.script = "none"]

\* a render of CallResults while WebCallInterface stays mounted: onCallEnd
\* is a new arrow function (AgentConfiguration.js line 131), the dependency
\* of the effect has changed, so its cleanup runs and then the effect again
Rerendered(w, stopFails) == loadRetellSDK(EffectCleanup(w, stopFails))

----------------------------------------------------------------------------
(* The state after construction.                                           *)

Init ==
    /\ driverInfo = [name |-> "", phone |-> <<>>, loadNumber |-> ""]
    /\ agentConfig = [prompt |-> "", logic |-> ""]
    /\ callResults = NoResult
    /\ isCallInProgress = FALSE
    /\ currentCallId = Null
    /\ isFetchingResults = FALSE
    /\ manualCallId = <<>>
    /\ isSyncing = FALSE
    /\ showManualLookup = FALSE
    /\ alert = NoAlert
    /\ startReq = None
    /\ polls = <<>>
    /\ fetches = <<>>
    /\ lookups = <<>>
    /\ syncReq = None
    /\ web = NoWebCall
    /\ agent_prompts = NoRows

----------------------------------------------------------------------------
(* Form input.                                                             *)

handleInputChange ==
    /\ \/ \E v \in NameInputs : driverInfo' = [driverInfo EXCEPT !.name = v]
       \/ \E v \in LoadInputs : driverInfo' = [driverInfo EXCEPT !.loadNumber = v]
       \/ \E v \in PhoneInputs :
            driverInfo' = [driverInfo EXCEPT !.phone = formatPhoneNumber(v)]
    /\ driverInfo' # driverInfo
    /\ alert' = NoAlert
    /\ UNCHANGED web
    /\ UNCHANGED <<agent_prompts, agentConfig, callResults, isCallInProgress, currentCallId,
                   isFetchingResults, manualCallId, isSyncing, showManualLookup,
                   startReq, polls, fetches, lookups, syncReq>>

\* setConfig is the setAgentConfig of App: App renders again, and with it
\* CallResults
handlePromptChange ==
    /\ \E v \in ConfigInputs : agentConfig' = [agentConfig EXCEPT !.prompt = v]
    /\ agentConfig' # agentConfig
    /\ alert' = NoAlert
    /\ web.mounted => (web.global => web.made < MaxClients)
    /\ \E stopFails \in BOOLEAN :
          web' = IF web.mounted THEN Rerendered(web, stopFails) ELSE web
    /\ UNCHANGED <<agent_prompts, driverInfo, callResults, isCallInProgress, currentCallId,
                   isFetchingResults, manualCallId, isSyncing, showManualLookup,
                   startReq, polls, fetches, lookups, syncReq>>

handleLogicChange ==
    /\ \E v \in ConfigInputs : agentConfig' = [agentConfig EXCEPT !.logic = v]
    /\ agentConfig' # agentConfig
    /\ alert' = NoAlert
    /\ web.mounted => (web.global => web.made < MaxClients)
    /\ \E stopFails \in BOOLEAN :
          web' = IF web.mounted THEN Rerendered(web, stopFails) ELSE web
    /\ UNCHANGED <<agent_prompts, driverInfo, callResults, isCallInProgress, currentCallId,
                   isFetchingResults, manualCallId, isSyncing, showManualLookup,
                   startReq, polls, fetches, lookups, syncReq>>

----------------------------------------------------------------------------
(* Text helpers of the result assembly.                                    *)

LowerCase == <<"a", "b", "c", "d", "e", "f", "g", "h", "i", "j", "k", "l", "m",
               "n", "o", "p", "q", "r", "s", "t", "u", "v", "w", "x", "y", "z">>
UpperCase == <<"A", "B", "C", "D", "E", "F", "G", "H", "I", "J", "K", "L", "M",
               "N", "O", "P", "Q", "R", "S", "T", "U", "V", "W", "X", "Y", "Z">>
Range(f) == {f[i] : i \in DOMAIN f}

ToUpper(c) ==
    IF c \in Range(LowerCase)
    THEN UpperCase[CHOOSE i \in DOMAIN LowerCase : LowerCase[i] = c]
    ELSE c
ToLower(c) ==
    IF c \in Range(UpperCase)
    THEN LowerCase[CHOOSE i \in DOMAIN UpperCase : UpperCase[i] = c]
    ELSE c

\* \w of a regular expression
IsWordChar(c) == c \in Range(LowerCase) \cup Range(UpperCase) \cup Digits \cup {"_"}

\* key.replace(/_/g, ' ').replace(/\b\w/g, l => l.toUpperCase()), line 239
TitleCase(key) ==
    LET spaced == [i \in DOMAIN key |-> IF key[i] = "_" THEN " " ELSE key[i]]
    IN  [i \in DOMAIN spaced |->
            IF IsWordChar(spaced[i]) /\ (i = 1 \/ ~IsWordChar(spaced[i - 1]))
            THEN ToUpper(spaced[i])
            ELSE spaced[i]]

RECURSIVE NatToText(_)
NatToText(n) ==
    LET d == <<"0", "1", "2", "3", "4", "5", "6", "7", "8", "9">>[(n % 10) + 1]
    IN  IF n < 10 THEN <<d>> ELSE NatToText(n \div 10) \o <<d>>

\* Number.prototype.toString of an integer
IntToText(n) == IF n < 0 THEN <<"-">> \o NatToText(-n) ELSE NatToText(n)

\* the % of JavaScript: the remainder has the sign of the dividend
JsRem(a, b) == IF a >= 0 THEN a % b ELSE -((-a) % b)

\* padStart(2, '0')
PadStart2(t) == IF Len(t) < 2 THEN <<"0">> \o t ELSE t

----------------------------------------------------------------------------
(* What the backend holds about a call.                                    *)

Absent == [absent |-> TRUE]      \* a null or missing object, date or array
NoData == Absent
Time(ms) == [ms |-> ms]          \* a date text, by the instant it parses to

\* "Agent: hi" and a line without speaker
TranscriptText == <<"A", "g", "e", "n", "t", ":", " ", "h", "i", "\n", "o", "k">>

\* GET /api/calls/{id}: a complete record, or a body with none of the fields
CallDataAnswers ==
    { [status |-> "ended",
       started_at |-> Time(1000), ended_at |-> Time(126000),
       call_analysis |-> [entries |-> <<
           [key |-> <<"c", "a", "l", "l", "_", "s", "u", "m", "m", "a", "r", "y">>,
            type |-> "string", value |-> <<"from analysis">>],
           [key |-> <<"s", "u", "c", "c", "e", "s", "s">>,
            type |-> "boolean", value |-> <<"true">>] >>],
       raw_transcript |-> TranscriptText],
      [status |-> Undefined, started_at |-> Absent, ended_at |-> Absent,
       call_analysis |-> Absent, raw_transcript |-> Null] }

\* what a non-2xx response with a JSON error body gives: fetch resolves and
\* response.ok is not read (lines 138-139, 168-169, 316-317), so the status
\* comes out undefined and the call details without any of their fields
NotOkStatus == Undefined
NotOkCallData ==
    [status |-> Undefined, started_at |-> Absent, ended_at |-> Absent,
     call_analysis |-> Absent, raw_transcript |-> Null]

Rejected == [rejected |-> TRUE]  \* the request, or reading its body, throws
DetailAnswers == CallDataAnswers \cup {Rejected}

\* GET /api/calls/{id}/transcript: an OK body, a non-OK response, or a
\* rejected request
TranscriptAnswers ==
    { [kind |-> "ok", body |-> [summary |-> "delivered", sentiment |-> Undefined,
                                key_points |-> [items |-> <<"on time", "no issues">>]]],
      [kind |-> "notOk", body |-> Absent],
      [kind |-> "throw", body |-> Absent] }

----------------------------------------------------------------------------
(* The records shown as call results.  A value of keyInformation is a      *)
(* sequence of text pieces.                                                *)

\* a keyInformation object, from key text to value
EmptyObject == [k \in {} |-> <<>>]
Put(obj, k, v) == [x \in DOMAIN obj \cup {k} |-> IF x = k THEN v ELSE obj[x]]

Now == [now |-> TRUE]            \* new Date().toISOString()

KeyCallType == <<"C", "a", "l", "l", " ", "T", "y", "p", "e">>
KeyCallStatus == <<"C", "a", "l", "l", " ", "S", "t", "a", "t", "u", "s">>
KeyDriverName == <<"D", "r", "i", "v", "e", "r", " ", "N", "a", "m", "e">>
KeyLoadNumber == <<"L", "o", "a", "d", " ", "N", "u", "m", "b", "e", "r">>
KeyPhoneNumber == <<"P", "h", "o", "n", "e", " ", "N", "u", "m", "b", "e", "r">>
KeyAccessToken == <<"A", "c", "c", "e", "s", "s", " ", "T", "o", "k", "e", "n">>
KeyAgentID == <<"A", "g", "e", "n", "t", " ", "I", "D">>
KeyError == <<"E", "r", "r", "o", "r">>
KeyCallSummary == <<"C", "a", "l", "l", " ", "S", "u", "m", "m", "a", "r", "y">>
KeySentiment == <<"S", "e", "n", "t", "i", "m", "e", "n", "t">>
KeyKeyPoints == <<"K", "e", "y", " ", "P", "o", "i", "n", "t", "s">>

\* basicResults of startTestCall, lines 95-113
BasicResults(call_id, access_token, driver) ==
    [callId |-> call_id,
     status |-> "web_call_ready",
     duration |-> <<"N", "/", "A">>,
     timestamp |-> Now,
     keyInformation |->
        (KeyCallType :> <<"Web Call">>) @@
        (KeyCallStatus :> <<"Ready to Connect">>) @@
        (KeyDriverName :> <<driver.name>>) @@
        (KeyLoadNumber :> <<driver.loadNumber>>) @@
        (KeyAccessToken :> access_token) @@
        (KeyAgentID :> <<"agent">>),
     transcript |-> << [speaker |-> <<"System">>,
                        message |-> <<"Web call created successfully. Use the access token to connect to the call interface.">>] >>,
     access_token |-> access_token]

\* the record written when fetchCallResults fails, lines 200-210
DegradedResults(callId) ==
    [callId |-> callId,
     status |-> "completed",
     duration |-> <<"U", "n", "k", "n", "o", "w", "n">>,
     timestamp |-> Now,
     keyInformation |->
        (KeyCallStatus :> <<"Completed">>) @@
        (KeyError :> <<"Unable to fetch detailed results">>),
     transcript |-> << [speaker |-> <<"System">>,
                        message |-> <<"Transcript not available">>] >>]

calculateDuration(startTime, endTime) ==
    IF startTime = Absent \/ endTime = Absent
    THEN <<"U", "n", "k", "n", "o", "w", "n">>
    ELSE LET durationMs == endTime.ms - startTime.ms
             minutes == durationMs \div 60000
             seconds == JsRem(durationMs, 60000) \div 1000
         IN  IntToText(minutes) \o <<":">> \o PadStart2(IntToText(seconds))

RECURSIVE JoinWith(_, _)
\* Array.prototype.join
JoinWith(pieces, sep) ==
    IF pieces = <<>> THEN <<>>
    ELSE IF Len(pieces) = 1 THEN pieces
    ELSE <<Head(pieces), sep>> \o JoinWith(Tail(pieces), sep)

RECURSIVE PutAnalysis(_, _)
\* the forEach of lines 237-241
PutAnalysis(keyInfo, entries) ==
    IF entries = <<>> THEN keyInfo
    ELSE LET e == Head(entries)
         IN  PutAnalysis(IF e.type = "string" \/ e.type = "number"
                         THEN Put(keyInfo, TitleCase(e.key), e.value)
                         ELSE keyInfo,
                         Tail(entries))

extractKeyInformation(callAnalysis, processedTranscript, driver) ==
    LET pt == processedTranscript
        fromTranscript ==
            IF pt # Absent
            THEN Put(Put(Put(EmptyObject,
                     KeyCallSummary,
                     IF TruthyStr(pt.summary) THEN <<pt.summary>>
                     ELSE <<"No summary available">>),
                     KeySentiment,
                     IF TruthyStr(pt.sentiment) THEN <<pt.sentiment>>
                     ELSE <<"Unknown">>),
                     KeyKeyPoints,
                     IF pt.key_points # Absent /\ pt.key_points.items # <<>>
                     THEN JoinWith(pt.key_points.items, ", ")
                     ELSE <<"None">>)
            ELSE EmptyObject
        fromAnalysis ==
            IF callAnalysis # Absent
            THEN PutAnalysis(fromTranscript, callAnalysis.entries)
            ELSE fromTranscript
        keyInfo ==
            Put(Put(Put(fromAnalysis,
                KeyDriverName, <<driver.name>>),
                KeyLoadNumber, <<driver.loadNumber>>),
                KeyPhoneNumber, driver.phone)
    IN  IF DOMAIN keyInfo # {} THEN keyInfo
        ELSE (KeyDriverName :> <<driver.name>>) @@
             (KeyLoadNumber :> <<driver.loadNumber>>) @@
             (KeyCallStatus :> <<"Completed">>)

RECURSIVE SplitLines(_)
\* String.prototype.split('\n')
SplitLines(text) ==
    IF \E i \in DOMAIN text : text[i] = "\n"
    THEN LET i == CHOOSE j \in DOMAIN text :
                     text[j] = "\n" /\ \A k \in 1..(j - 1) : text[k] # "\n"
         IN  <<SubSeq(text, 1, i - 1)>> \o SplitLines(SubSeq(text, i + 1, Len(text)))
    ELSE <<text>>

\* [{"speaker":"Agent","message":"hi"}]
JsonEntriesText ==
    <<"[", "{", "\"", "s", "p", "e", "a", "k", "e", "r", "\"", ":", "\"", "A", "g", "e", "n", "t", "\"", ",", "\"", "m", "e", "s", "s", "a", "g", "e", "\"", ":", "\"", "h", "i", "\"", "}", "]">>

\* JSON.parse, for the texts the model distinguishes: an empty array, an
\* array of one transcript entry, an empty object, and anything else that
\* starts like JSON and is malformed.  White space around the value is
\* allowed.
JsonParse(text) ==
    LET t == Trim(text)
    IN  IF t = <<"[", "]">> THEN [kind |-> "array", value |-> <<>>]
        ELSE IF t = JsonEntriesText
        THEN [kind |-> "array",
              value |-> << [speaker |-> <<"A", "g", "e", "n", "t">>,
                            message |-> <<"h", "i">>] >>]
        ELSE IF t = <<"{", "}">> THEN [kind |-> "object", value |-> <<>>]
        ELSE [kind |-> "error", value |-> <<>>]

Speakers == { <<"a", "g", "e", "n", "t">>, <<"d", "r", "i", "v", "e", "r">>,
              <<"a", "s", "s", "i", "s", "t", "a", "n", "t">>,
              <<"u", "s", "e", "r">>, <<"h", "u", "m", "a", "n">> }

\* line.match(/^(Agent|Driver|Assistant|User|Human):\s*(.+)/i), line 278:
\* the speakers the line starts with
SpeakerMatch(line) ==
    { sp \in Speakers :
        /\ Len(line) > Len(sp) + 1
        /\ [i \in 1..Len(sp) |-> ToLower(line[i])] = sp
        /\ line[Len(sp) + 1] = ":"
        /\ TrimLeft(SubSeq(line, Len(sp) + 2, Len(line))) # <<>> }

\* (.+) of the regular expression of line 278: the dot matches no line
\* terminator, and nothing anchors the end of the match
RECURSIVE DotPlus(_)
DotPlus(s) ==
    IF s = <<>> \/ Head(s) \in {"\n", "\r"} THEN <<>>
    ELSE <<Head(s)>> \o DotPlus(Tail(s))

\* the entry of one non-empty trimmed line, lines 276-290
LineEntry(line) ==
    IF SpeakerMatch(line) # {}
    THEN LET sp == CHOOSE x \in SpeakerMatch(line) : TRUE
         IN  [speaker |-> SubSeq(line, 1, Len(sp)),
              message |-> DotPlus(TrimLeft(SubSeq(line, Len(sp) + 2, Len(line))))]
    ELSE [speaker |-> <<"System">>, message |-> line]

RECURSIVE LineEntries(_)
LineEntries(lines) ==
    IF lines = <<>> THEN <<>>
    ELSE LET line == Trim(Head(lines))
         IN  (IF line # <<>> THEN <<LineEntry(line)>> ELSE <<>>)
             \o LineEntries(Tail(lines))

\* formatTranscript going on with the lines of a text that does not parse
formatTranscriptLenient(rawTranscript) ==
    IF ~Truthy(rawTranscript)
    THEN << [speaker |-> <<"System">>,
             message |-> <<"Transcript not available yet. It may take a few minutes to process.">>] >>
    ELSE LET looksJson == \/ StartsWith(rawTranscript, <<"[">>)
                          \/ StartsWith(rawTranscript, <<"{">>)
             parsed == JsonParse(rawTranscript)
             transcript == LineEntries(SplitLines(rawTranscript))
         IN  IF looksJson /\ parsed.kind = "array"
             THEN parsed.value
             ELSE IF transcript # <<>> THEN transcript
             ELSE << [speaker |-> <<"System">>, message |-> rawTranscript] >>

formatTranscript(rawTranscript) ==
    IF ~Truthy(rawTranscript)
    THEN << [speaker |-> <<"System">>,
             message |-> <<"Transcript not available yet. It may take a few minutes to process.">>] >>
    ELSE LET looksJson == \/ StartsWith(rawTranscript, <<"[">>)
                          \/ StartsWith(rawTranscript, <<"{">>)
             parsed == JsonParse(rawTranscript)
             transcript == LineEntries(SplitLines(rawTranscript))
         IN  IF looksJson /\ parsed.kind = "error"
             THEN << [speaker |-> <<"System">>, message |-> rawTranscript] >>
             ELSE IF looksJson /\ parsed.kind = "array"
             THEN parsed.value
             ELSE IF transcript # <<>> THEN transcript
             ELSE << [speaker |-> <<"System">>, message |-> rawTranscript] >>

\* formattedResults of fetchCallResults, lines 183-192
FormattedResults(callId, callData, processedTranscript, driver) ==
    [callId |-> callId,
     status |-> IF TruthyStr(callData.status) THEN callData.status ELSE "completed",
     duration |-> calculateDuration(callData.started_at, callData.ended_at),
     timestamp |-> IF callData.ended_at # Absent THEN callData.ended_at
                   ELSE callData.started_at,
     keyInformation |-> extractKeyInformation(callData.call_analysis,
                                              processedTranscript, driver),
     transcript |-> formatTranscript(callData.raw_transcript),
     rawCallData |-> callData,
     processedTranscript |-> processedTranscript]

----------------------------------------------------------------------------
(* pollForCallCompletion: the record of one loop.                          *)

maxAttempts == 60

NoneInFlight == [a \in StatusAnswers |-> 0]
InFlight(p) == p.inflight["active"] + p.inflight["completed"] + p.inflight["ended"]
               + p.inflight[Undefined] + p.inflight[Throw]

\* timer: "timeout" while the setTimeout of startTestCall is pending,
\* "interval" while the setInterval runs, "cleared" after clearInterval.
\* attempts is the closure variable; inflight counts the status requests
\* awaiting their response, by the answer the backend gives.
\* nFetch, nLonger, nUnable and hist record what the loop has done so far:
\* fetchCallResults invocations, the two alerts, and whether the backend has
\* answered "quiet" (no terminal status, no failure, to every request),
\* "late" (quiet for maxAttempts - 1 requests, then a terminal status) or
\* otherwise.
\* elapsed counts the 5000 ms periods of the loop's timers that have run
\* out since createCall succeeded: the setTimeout of line 117 and every
\* period of the setInterval of lines 133-162.

\* the poll loop with pollForCallCompletion called at once, without the
\* setTimeout of line 117
NewPollImmediate(callId, driver) ==
    [callId |-> callId, driver |-> driver, timer |-> "interval", attempts |-> 0,
     inflight |-> NoneInFlight, nFetch |-> 0, nLonger |-> 0, nUnable |-> 0,
     hist |-> "quiet", elapsed |-> 0]

NewPoll(callId, driver) ==
    [callId |-> callId, driver |-> driver, timer |-> "timeout", attempts |-> 0,
     inflight |-> NoneInFlight, nFetch |-> 0, nLonger |-> 0, nUnable |-> 0,
     hist |-> "quiet", elapsed |-> 0]

----------------------------------------------------------------------------
(* startTestCall.                                                          *)

\* DriverInfoComplete without the check of the load number
DriverInfoCompleteNoLoad(d) == TruthyStr(d.name) /\ Truthy(d.phone)

\* the condition of line 55, negated
DriverInfoComplete(d) ==
    TruthyStr(d.name) /\ Truthy(d.phone) /\ TruthyStr(d.loadNumber)
\* the condition of line 60, negated
AgentConfigured(c) == TruthyStr(c.prompt) /\ TruthyStr(c.logic)

\* the click, up to the first await; the button is disabled while
\* isCallInProgress
startTestCall(maxCalls) ==
    /\ ~isCallInProgress
    /\ Len(polls) < maxCalls
    /\ IF ~DriverInfoComplete(driverInfo)
       THEN /\ alert' = Alert(MsgFillDriver, <<>>)
            /\ UNCHANGED <<isCallInProgress, callResults, currentCallId, startReq>>
       ELSE IF ~AgentConfigured(agentConfig)
       THEN /\ alert' = Alert(MsgConfigure, <<>>)
            /\ UNCHANGED <<isCallInProgress, callResults, currentCallId, startReq>>
       ELSE /\ isCallInProgress' = TRUE
            /\ callResults' = NoResult
            /\ currentCallId' = Null
            /\ startReq' = [pending |-> TRUE, driver |-> driverInfo,
                            config |-> agentConfig]
            /\ alert' = NoAlert
    /\ UNCHANGED web
    /\ UNCHANGED <<agent_prompts, driverInfo, agentConfig, isFetchingResults, manualCallId,
                   isSyncing, showManualLookup, polls, fetches, lookups, syncReq>>


\* CallFailedMessage without the error text of the body
CallFailedMessageFixed(answer) ==
    IF answer.kind = "throw" THEN <<answer.error>> ELSE <<"Failed to start call">>

\* error.message of the catch of line 121: that of the rejected request, or
\* of the Error thrown at line 119
CallFailedMessage(answer) ==
    IF answer.kind = "throw" THEN <<answer.error>>
    ELSE IF TruthyStr(answer.error) THEN <<answer.error>>
    ELSE <<"Failed to start call">>

\* the response of createCall: lines 85-126
startCallResponse(answer) ==
    /\ startReq.pending
    /\   LET n == Len(polls) + 1
             call_id == CallIdOf(n)
             access_token == TokenOf(n)
         IN  IF answer.kind = "ok"
             THEN /\ currentCallId' = call_id
                  /\ alert' = Alert(MsgInitiated, <<call_id, access_token>>)
                  /\ callResults' = BasicResults(call_id, access_token,
                                                 startReq.driver)
                  /\ polls' = Append(polls, NewPoll(call_id, startReq.driver))
             ELSE /\ alert' = Alert(MsgCallFailed, <<CallFailedMessage(answer)>>)
                  /\ UNCHANGED <<currentCallId, callResults, polls>>
    /\ isCallInProgress' = FALSE
    /\ startReq' = None
    /\ UNCHANGED web
    /\ UNCHANGED <<agent_prompts, driverInfo, agentConfig, isFetchingResults, manualCallId,
                   isSyncing, showManualLookup, fetches, lookups, syncReq>>


----------------------------------------------------------------------------
(* fetchCallResults, as invoked by a poll loop.                            *)

\* the invocation up to the request for the call details, line 168
FetchInvoked(callId, driver) ==
    [callId |-> callId, driver |-> driver, stage |-> "detail", callData |-> NoData]

RemoveAt(seq, i) == SubSeq(seq, 1, i - 1) \o SubSeq(seq, i + 1, Len(seq))

----------------------------------------------------------------------------
(* pollForCallCompletion.                                                  *)

\* the setTimeout of line 117 fires: lines 129-133 and 162
pollForCallCompletion(l) ==
    /\ polls[l].timer = "timeout"
    /\ polls' = [polls EXCEPT ![l].timer = "interval", ![l].elapsed = @ + 1]
    /\ alert' = NoAlert
    /\ UNCHANGED web
    /\ UNCHANGED <<agent_prompts, driverInfo, agentConfig, callResults, isCallInProgress,
                   currentCallId, isFetchingResults, manualCallId, isSyncing,
                   showManualLookup, startReq, fetches, lookups, syncReq>>

HistAfter(hist, attempts, answer) ==
    IF hist # "quiet" THEN hist
    ELSE IF answer = Throw THEN "other"
    ELSE IF ~IsTerminal(answer) THEN "quiet"
    ELSE IF attempts = maxAttempts THEN "late"
    ELSE "other"

\* an interval tick, up to the await of the status request: lines 134-138
pollTick(l, maxTicks, answer) ==
    /\ polls[l].timer = "interval"
    /\ polls[l].attempts < maxTicks
    /\ InFlight(polls[l]) < MaxInFlight
    /\   LET attempts == polls[l].attempts + 1
         IN  polls' = [polls EXCEPT
                 ![l].attempts = attempts,
                 ![l].elapsed = @ + 1,
                 ![l].inflight[answer] = @ + 1,
                 ![l].hist = HistAfter(@, attempts, answer)]
    /\ alert' = NoAlert
    /\ UNCHANGED web
    /\ UNCHANGED <<agent_prompts, driverInfo, agentConfig, callResults, isCallInProgress,
                   currentCallId, isFetchingResults, manualCallId, isSyncing,
                   showManualLookup, startReq, fetches, lookups, syncReq>>

\* PollOutcome without the attempt ceiling
PollOutcomeNoCeiling(attempts, answer) ==
    IF answer = Throw THEN "retry"
    ELSE IF IsTerminal(answer) THEN "fetch"
    ELSE "retry"

\* PollOutcome with the ceiling compared by > instead of >=
PollOutcomeOffByOne(attempts, answer) ==
    IF answer = Throw
    THEN IF attempts > maxAttempts THEN "unable" ELSE "retry"
    ELSE IF IsTerminal(answer) THEN "fetch"
    ELSE IF attempts > maxAttempts THEN "longer"
    ELSE "retry"

\* PollOutcome with every failed status request reported at once
PollOutcomeEager(attempts, answer) ==
    IF answer = Throw THEN "unable"
    ELSE IF IsTerminal(answer) THEN "fetch"
    ELSE IF attempts >= maxAttempts THEN "longer"
    ELSE "retry"

\* what the tick does with the answer of its status request: lines 139-161
PollOutcome(attempts, answer) ==
    IF answer = Throw
    THEN IF attempts >= maxAttempts THEN "unable" ELSE "retry"
    ELSE IF IsTerminal(answer) THEN "fetch"
    ELSE IF attempts >= maxAttempts THEN "longer"
    ELSE "retry"

pollStatusResponse(l, answer) ==
      LET p == polls[l]
          outcome == PollOutcome(p.attempts, answer)
          q == [p EXCEPT !.inflight[answer] = @ - 1]
      IN  /\ p.inflight[answer] > 0
          /\ CASE outcome = "fetch" ->
                    /\ Len(fetches) < MaxFetches
                    /\ polls' = [polls EXCEPT ![l] =
                          [q EXCEPT !.timer = "cleared", !.nFetch = @ + 1]]
                    /\ fetches' = Append(fetches, FetchInvoked(p.callId, p.driver))
                    /\ alert' = NoAlert
               [] outcome = "longer" ->
                    /\ Len(fetches) < MaxFetches
                    /\ polls' = [polls EXCEPT ![l] =
                          [q EXCEPT !.timer = "cleared", !.nFetch = @ + 1,
                                    !.nLonger = @ + 1]]
                    /\ fetches' = Append(fetches, FetchInvoked(p.callId, p.driver))
                    /\ alert' = Alert(MsgLonger, <<>>)
               [] outcome = "unable" ->
                    /\ polls' = [polls EXCEPT ![l] =
                          [q EXCEPT !.timer = "cleared", !.nUnable = @ + 1]]
                    /\ alert' = Alert(MsgUnable, <<>>)
                    /\ UNCHANGED fetches
               [] outcome = "retry" ->
                    /\ polls' = [polls EXCEPT ![l] = q]
                    /\ alert' = NoAlert
                    /\ UNCHANGED fetches
          /\ UNCHANGED web
          /\ UNCHANGED <<agent_prompts, driverInfo, agentConfig, callResults, isCallInProgress,
                         currentCallId, isFetchingResults, manualCallId,
                         isSyncing, showManualLookup, startReq, lookups, syncReq>>


----------------------------------------------------------------------------
(* fetchCallResults: the two responses.  FetchDetail and FetchTranscript   *)
(* give the invocation after the response (Absent when it has returned)    *)
(* and the record it displays (Absent when it displays none).              *)

\* FetchDetail without the catch of line 196: the failure leaves
\* fetchCallResults and nothing is displayed
FetchDetailUncaught(task, answer) ==
    IF answer = Rejected
    THEN [task |-> Absent, results |-> Absent]
    ELSE [task |-> [task EXCEPT !.stage = "transcript", !.callData = answer],
          results |-> Absent]

\* the answer to the request for the call details: lines 168-174, 196-211
FetchDetail(task, answer) ==
    IF answer = Rejected
    THEN [task |-> Absent, results |-> DegradedResults(task.callId)]
    ELSE [task |-> [task EXCEPT !.stage = "transcript", !.callData = answer],
          results |-> Absent]

\* FetchTranscript with the new record merged over the displayed one, as
\* setCallResults(prev => ({...prev, ...formattedResults}))
FetchTranscriptMerging(task, answer) ==
    LET processedTranscript == IF answer.kind = "ok" THEN answer.body ELSE Absent
    IN  [task |-> Absent,
         results |-> FormattedResults(task.callId, task.callData,
                                      processedTranscript, task.driver)
                     @@ callResults]

\* FetchTranscript with a failed transcript request taken as a failure of
\* fetchCallResults
FetchTranscriptStrict(task, answer) ==
    [task |-> Absent,
     results |-> IF answer.kind = "ok"
                 THEN FormattedResults(task.callId, task.callData, answer.body,
                                       task.driver)
                 ELSE DegradedResults(task.callId)]

\* the answer to the request for the processed transcript: lines 174-194
FetchTranscript(task, answer) ==
    LET processedTranscript == IF answer.kind = "ok" THEN answer.body ELSE Absent
    IN  [task |-> Absent,
         results |-> FormattedResults(task.callId, task.callData,
                                      processedTranscript, task.driver)]

FetchStep(task, answer) ==
    IF task.stage = "detail" THEN FetchDetail(task, answer)
    ELSE FetchTranscript(task, answer)
FetchAnswers(task) ==
    IF task.stage = "detail" THEN DetailAnswers ELSE TranscriptAnswers

\* a response to a fetchCallResults that a poll loop awaits
fetchResponse(i, answer) ==
    /\   LET next == FetchStep(fetches[i], answer)
         IN  /\ fetches' = IF next.task = Absent THEN RemoveAt(fetches, i)
                           ELSE [fetches EXCEPT ![i] = next.task]
             /\ callResults' = IF next.results = Absent THEN callResults
                               ELSE next.results
    /\ alert' = NoAlert
    /\ UNCHANGED web
    /\ UNCHANGED <<agent_prompts, driverInfo, agentConfig, isCallInProgress, currentCallId,
                   isFetchingResults, manualCallId, isSyncing, showManualLookup,
                   startReq, polls, lookups, syncReq>>


----------------------------------------------------------------------------
(* The results panel, rendered while there are results.                    *)

\* the click on "Clear Results"
clearResults ==
    /\ callResults # NoResult
    /\ callResults' = NoResult
    /\ alert' = NoAlert
    /\ UNCHANGED web
    /\ UNCHANGED <<agent_prompts, driverInfo, agentConfig, isCallInProgress, currentCallId,
                   isFetchingResults, manualCallId, isSyncing, showManualLookup,
                   startReq, polls, fetches, lookups, syncReq>>

\* the click on "Show Full" or "Hide" next to the access token: a state of
\* CallResults changes and it renders again
toggleTokenExpansion ==
    /\ HasToken(callResults)
    /\ web.mounted
    /\ web.global => web.made < MaxClients
    /\ \E stopFails \in BOOLEAN : web' = Rerendered(web, stopFails)
    /\ alert' = NoAlert
    /\ UNCHANGED <<agent_prompts, driverInfo, agentConfig, callResults, isCallInProgress,
                   currentCallId, isFetchingResults, manualCallId, isSyncing,
                   showManualLookup, startReq, polls, fetches, lookups, syncReq>>

----------------------------------------------------------------------------
(* WebCallInterface.                                                       *)

\* the component as useState and useRef create it
NewWebCall(w) ==
    [w EXCEPT !.mounted = TRUE, !.ref = NoClient, !.isConnecting = FALSE,
              !.isConnected = FALSE, !.callStatus = "ready", !.error = NoError]

\* the first run of the effect, once results with an access token are
\* displayed
mountWebCallInterface ==
    /\ ~web.mounted
    /\ HasToken(callResults)
    /\ web.global => web.made < MaxClients
    /\ web' = loadRetellSDK(NewWebCall(web))
    /\ alert' = NoAlert
    /\ UNCHANGED <<agent_prompts, driverInfo, agentConfig, callResults, isCallInProgress,
                   currentCallId, isFetchingResults, manualCallId, isSyncing,
                   showManualLookup, startReq, polls, fetches, lookups, syncReq>>

\* the cleanup of the effect when the results displayed have no access
\* token any more
unmountWebCallInterface(stopFails) ==
    /\ web.mounted
    /\ ~HasToken(callResults)
    /\ web' = [EffectCleanup(web, stopFails) EXCEPT !.mounted = FALSE]
    /\ alert' = NoAlert
    /\ UNCHANGED <<agent_prompts, driverInfo, agentConfig, callResults, isCallInProgress,
                   currentCallId, isFetchingResults, manualCallId, isSyncing,
                   showManualLookup, startReq, polls, fetches, lookups, syncReq>>

\* scriptElement.onload, lines 41-53: the script has run and has defined
\* window.RetellWebClient, or has not
scriptOnload ==
    /\ web.script = "loading"
    /\ \E defined \in BOOLEAN :
          web' = [web EXCEPT !.script = "loaded", !.global = defined,
                             !.timer = TRUE]
    /\ alert' = NoAlert
    /\ UNCHANGED <<agent_prompts, driverInfo, agentConfig, callResults, isCallInProgress,
                   currentCallId, isFetchingResults, manualCallId, isSyncing,
                   showManualLookup, startReq, polls, fetches, lookups, syncReq>>

\* scriptElement.onerror, lines 55-58
scriptOnerror ==
    /\ web.script = "loading"
    /\ web' = [web EXCEPT !.script = "failed", !.error = ErrScript]
    /\ alert' = NoAlert
    /\ UNCHANGED <<agent_prompts, driverInfo, agentConfig, callResults, isCallInProgress,
                   currentCallId, isFetchingResults, manualCallId, isSyncing,
                   showManualLookup, startReq, polls, fetches, lookups, syncReq>>

\* the callback of the setTimeout of line 44.  Nothing clears the timer, so
\* it also fires after the cleanup of the effect that set it; setError of an
\* unmounted component has no effect.
scriptTimeout ==
    /\ web.timer
    /\ web.global => web.made < MaxClients
    /\ web' = IF web.global
              THEN IF web.mounted
                   THEN [initializeRetellClient(web) EXCEPT !.timer = FALSE]
                   ELSE [web EXCEPT !.timer = FALSE, !.made = @ + 1]
              ELSE [web EXCEPT !.timer = FALSE,
                               !.error = IF web.mounted THEN ErrNoGlobal ELSE @]
    /\ alert' = NoAlert
    /\ UNCHANGED <<agent_prompts, driverInfo, agentConfig, callResults, isCallInProgress,
                   currentCallId, isFetchingResults, manualCallId, isSyncing,
                   showManualLookup, startReq, polls, fetches, lookups, syncReq>>

\* startCall with the SDK unavailable: the result of lines 134-150 when
\* there is no client, Absent when the handler returns there
ClientForCall(w) ==
    IF w.ref # NoClient THEN w
    ELSE IF w.global
    THEN [w EXCEPT !.made = @ + 1, !.ref = w.made + 1, !.bare = @ \cup {w.made + 1}]
    ELSE Absent

\* the click on "Connect to Call", up to the await of the SDK's startCall:
\* lines 131-166
startCall ==
    /\ web.mounted
    /\ ~web.isConnected /\ ~web.isConnecting
    /\ web.connecting = NoClient
    /\ (web.ref = NoClient /\ web.global) => web.made < MaxClients
    /\ LET w == ClientForCall(web)
       IN  web' = IF w = Absent
                  THEN [web EXCEPT !.error = ErrNotLoaded]
                  ELSE [w EXCEPT !.isConnecting = TRUE, !.error = NoError,
                                 !.callStatus = "connecting",
                                 !.connecting = w.ref]
    /\ alert' = NoAlert
    /\ UNCHANGED <<agent_prompts, driverInfo, agentConfig, callResults, isCallInProgress,
                   currentCallId, isFetchingResults, manualCallId, isSyncing,
                   showManualLookup, startReq, polls, fetches, lookups, syncReq>>

\* the client whose startCall is awaited has the call up and emits
\* call_started: lines 74-80.  The promise of startCall is still pending.
callStarted ==
    /\ web.connecting # NoClient
    /\ web.live # web.connecting
    /\ web' = IF web.connecting \in web.bare
              THEN [web EXCEPT !.live = web.connecting]
              ELSE [web EXCEPT !.live = web.connecting,
                               !.isConnected = TRUE,
                               !.callStatus = "connected",
                               !.error = NoError, !.isConnecting = FALSE]
    /\ alert' = NoAlert
    /\ UNCHANGED <<agent_prompts, driverInfo, agentConfig, callResults, isCallInProgress,
                   currentCallId, isFetchingResults, manualCallId, isSyncing,
                   showManualLookup, startReq, polls, fetches, lookups, syncReq>>

\* the promise of the SDK's startCall settles: it resolves once the call is
\* up (line 166), or it is rejected, before or after call_started, and the
\* catch of lines 168-173 runs
startCallSettled(resolved) ==
    /\ web.connecting # NoClient
    /\ resolved => web.live = web.connecting
    /\ web' = IF resolved
              THEN [web EXCEPT !.connecting = NoClient]
              ELSE [web EXCEPT !.connecting = NoClient, !.error = ErrStartCall,
                               !.isConnecting = FALSE, !.callStatus = "error"]
    /\ alert' = NoAlert
    /\ UNCHANGED <<agent_prompts, driverInfo, agentConfig, callResults, isCallInProgress,
                   currentCallId, isFetchingResults, manualCallId, isSyncing,
                   showManualLookup, startReq, polls, fetches, lookups, syncReq>>

\* call_ended with a handler that sets the status back to ready
callEndedReady ==
    /\ web.live # NoClient
    /\ web' = IF web.live \in web.bare
              THEN [web EXCEPT !.live = NoClient]
              ELSE [web EXCEPT !.live = NoClient, !.isConnected = FALSE,
                               !.callStatus = "ready", !.isConnecting = FALSE]
    /\ alert' = NoAlert
    /\ UNCHANGED <<agent_prompts, driverInfo, agentConfig, callResults, isCallInProgress,
                   currentCallId, isFetchingResults, manualCallId, isSyncing,
                   showManualLookup, startReq, polls, fetches, lookups, syncReq>>

\* the client of the live call emits call_ended: lines 82-90
callEnded ==
    /\ web.live # NoClient
    /\ web' = IF web.live \in web.bare
              THEN [web EXCEPT !.live = NoClient]
              ELSE [web EXCEPT !.live = NoClient, !.isConnected = FALSE,
                               !.callStatus = "ended", !.isConnecting = FALSE]
    /\ alert' = NoAlert
    /\ UNCHANGED <<agent_prompts, driverInfo, agentConfig, callResults, isCallInProgress,
                   currentCallId, isFetchingResults, manualCallId, isSyncing,
                   showManualLookup, startReq, polls, fetches, lookups, syncReq>>

\* the client of the live call, or the one whose startCall is awaited,
\* emits error: lines 92-98
callError ==
    /\ web.live # NoClient \/ web.connecting # NoClient
    /\ (IF web.live # NoClient THEN web.live ELSE web.connecting) \notin web.bare
    /\ web' = [web EXCEPT !.error = ErrCall, !.isConnecting = FALSE,
                          !.isConnected = FALSE, !.callStatus = "error"]
    /\ alert' = NoAlert
    /\ UNCHANGED <<agent_prompts, driverInfo, agentConfig, callResults, isCallInProgress,
                   currentCallId, isFetchingResults, manualCallId, isSyncing,
                   showManualLookup, startReq, polls, fetches, lookups, syncReq>>

\* the click on "End Call": lines 176-188.  stopCall() stops the call, or
\* throws (stopFails) and the catch of line 183 sets the error only.
endCall(stopFails) ==
    /\ web.mounted
    /\ web.isConnected
    /\ web' = IF web.ref = NoClient THEN web
              ELSE IF stopFails THEN [web EXCEPT !.error = ErrEndCall]
              ELSE [Stopped(web, web.ref) EXCEPT !.isConnected = FALSE,
                                                 !.isConnecting = FALSE,
                                                 !.callStatus = "ended"]
    /\ alert' = NoAlert
    /\ UNCHANGED <<agent_prompts, driverInfo, agentConfig, callResults, isCallInProgress,
                   currentCallId, isFetchingResults, manualCallId, isSyncing,
                   showManualLookup, startReq, polls, fetches, lookups, syncReq>>

----------------------------------------------------------------------------
(* The manual lookup panel.                                                *)

toggleManualLookup ==
    /\ showManualLookup' = ~showManualLookup
    /\ alert' = NoAlert
    /\ UNCHANGED web
    /\ UNCHANGED <<agent_prompts, driverInfo, agentConfig, callResults, isCallInProgress,
                   currentCallId, isFetchingResults, manualCallId, isSyncing,
                   startReq, polls, fetches, lookups, syncReq>>

\* onChange of the call id input, line 451
setManualCallId ==
    /\ showManualLookup
    /\ \E v \in ManualInputs : manualCallId' = v
    /\ manualCallId' # manualCallId
    /\ alert' = NoAlert
    /\ UNCHANGED web
    /\ UNCHANGED <<agent_prompts, driverInfo, agentConfig, callResults, isCallInProgress,
                   currentCallId, isFetchingResults, isSyncing, showManualLookup,
                   startReq, polls, fetches, lookups, syncReq>>

\* CallIdToFetch with the operands swapped: currentCallId || manualCallId.trim()
CallIdToFetchCurrentFirst(manual, current) ==
    IF Truthy(current) THEN current ELSE Trim(manual)

\* manualCallId.trim() || currentCallId, line 305
CallIdToFetch(manual, current) ==
    IF Truthy(Trim(manual)) THEN Trim(manual) ELSE current

\* manualFetchResults invoked with the state of its closure, up to the await
\* of the status request (lines 305-316): the invocation, Absent when it
\* returned at once
LookupInvoked(manual, current, driver, bySync) ==
    LET callIdToFetch == CallIdToFetch(manual, current)
    IN  IF ~Truthy(callIdToFetch) THEN Absent
        ELSE [callId |-> callIdToFetch, manual |-> Truthy(Trim(manual)),
              driver |-> driver, stage |-> "status", callData |-> NoData,
              bySync |-> bySync]

\* the click on "Fetch Call Results"; disabled while isFetchingResults
manualFetchResultsWithin(maxLookups) ==
    /\ showManualLookup
    /\ ~isFetchingResults
    /\ Len(lookups) < maxLookups
    /\ LET lookup == LookupInvoked(manualCallId, currentCallId, driverInfo, FALSE)
       IN  IF lookup = Absent
           THEN /\ alert' = Alert(MsgEnterId, <<>>)
                /\ UNCHANGED <<isFetchingResults, lookups>>
           ELSE /\ isFetchingResults' = TRUE
                /\ lookups' = Append(lookups, lookup)
                /\ alert' = NoAlert
    /\ UNCHANGED web
    /\ UNCHANGED <<agent_prompts, driverInfo, agentConfig, callResults, isCallInProgress,
                   currentCallId, manualCallId, isSyncing, showManualLookup,
                   startReq, polls, fetches, syncReq>>

manualFetchResults == manualFetchResultsWithin(MaxLookups)

\* manualFetchResults returns: its finally, then that of the
\* syncCallFromRetell awaiting it (lines 336, 372)
LookupReturns(i) ==
    /\ lookups' = RemoveAt(lookups, i)
    /\ isFetchingResults' = FALSE
    /\ isSyncing' = IF lookups[i].bySync THEN FALSE ELSE isSyncing

\* LookupOutcome with every status but "active" taken as the end of the call
LookupOutcomeNotActive(answer) ==
    IF answer = Throw THEN "failed"
    ELSE IF answer # "active" THEN "fetch"
    ELSE "active"

\* what manualFetchResults does with the answer of its status request,
\* lines 317-334
LookupOutcome(answer) ==
    IF answer = Throw THEN "failed"
    ELSE IF IsTerminal(answer) THEN "fetch"
    ELSE "active"

\* the answer to the status request of manualFetchResults: lines 317-337
lookupStatusResponse(i, answer) ==
    /\ lookups[i].stage = "status"
    /\ CASE LookupOutcome(answer) = "failed" ->
                /\ alert' = Alert(MsgCheckFailed, <<lookups[i].callId>>)
                /\ LookupReturns(i)
           [] LookupOutcome(answer) = "fetch" ->
                /\ lookups' = [lookups EXCEPT ![i].stage = "detail"]
                /\ alert' = NoAlert
                /\ UNCHANGED <<isFetchingResults, isSyncing>>
           [] LookupOutcome(answer) = "active" ->
                /\ alert' = Alert(MsgStillActive, <<(<<answer>>)>>)
                /\ LookupReturns(i)
    /\ UNCHANGED web
    /\ UNCHANGED <<agent_prompts, driverInfo, agentConfig, callResults, isCallInProgress,
                   currentCallId, manualCallId, showManualLookup, startReq,
                   polls, fetches, syncReq>>

\* a response to the fetchCallResults that manualFetchResults awaits, and
\* lines 322-327 once it has returned
lookupFetchResponse(i, answer) ==
    /\ lookups[i].stage # "status"
    /\   LET next == FetchStep(lookups[i], answer)
         IN  /\ callResults' = IF next.results = Absent THEN callResults
                               ELSE next.results
             /\ IF next.task = Absent
                THEN /\ alert' = Alert(MsgFetched, <<>>)
                     /\ currentCallId' = IF lookups[i].manual THEN lookups[i].callId
                                         ELSE currentCallId
                     /\ LookupReturns(i)
                ELSE /\ lookups' = [lookups EXCEPT ![i] = next.task]
                     /\ alert' = NoAlert
                     /\ UNCHANGED <<currentCallId, isFetchingResults, isSyncing>>
    /\ UNCHANGED web
    /\ UNCHANGED <<agent_prompts, driverInfo, agentConfig, isCallInProgress, manualCallId,
                   showManualLookup, startReq, polls, fetches, syncReq>>

----------------------------------------------------------------------------
(* syncCallFromRetell.                                                     *)

\* POST /api/call/{id}/sync: response.ok with the JSON body, or a rejected
\* request
SyncAnswers ==
    { [kind |-> "body", ok |-> TRUE, success |-> TRUE,
       detail |-> Undefined, message |-> Undefined],
      [kind |-> "body", ok |-> FALSE, success |-> FALSE,
       detail |-> "Call not found", message |-> Undefined],
      [kind |-> "body", ok |-> TRUE, success |-> FALSE,
       detail |-> Undefined, message |-> "not imported"],
      [kind |-> "body", ok |-> TRUE, success |-> FALSE,
       detail |-> Undefined, message |-> Undefined],
      [kind |-> "throw", ok |-> FALSE, success |-> FALSE,
       detail |-> Undefined, message |-> "Failed to fetch"] }

\* the click on "Sync from Retell AI"; disabled while isSyncing or while the
\* trimmed call id is empty
syncCallFromRetell ==
    /\ showManualLookup
    /\ ~isSyncing
    /\ Truthy(Trim(manualCallId))
    /\ ~syncReq.pending
    /\ isSyncing' = TRUE
    /\ syncReq' = [pending |-> TRUE, callId |-> Trim(manualCallId),
                   manualCallId |-> manualCallId, driver |-> driverInfo]
    /\ alert' = NoAlert
    /\ UNCHANGED web
    /\ UNCHANGED <<agent_prompts, driverInfo, agentConfig, callResults, isCallInProgress,
                   currentCallId, isFetchingResults, manualCallId,
                   showManualLookup, startReq, polls, fetches, lookups>>

\* SyncFailedMessage without result.detail
SyncFailedMessageNoDetail(answer) ==
    IF answer.kind = "throw" THEN <<answer.message>>
    ELSE IF TruthyStr(answer.message) THEN <<answer.message>>
    ELSE <<"Unknown error">>

\* the text after "Failed to sync call: ", lines 366 and 370
SyncFailedMessage(answer) ==
    IF answer.kind = "throw" THEN <<answer.message>>
    ELSE IF TruthyStr(answer.detail) THEN <<answer.detail>>
    ELSE IF TruthyStr(answer.message) THEN <<answer.message>>
    ELSE <<"Unknown error">>

\* the response of the sync request: lines 358-373.  manualFetchResults is
\* invoked with the closure of the click; its manual id is not blank, so
\* the currentCallId of that closure is never read.
syncResponseWithin(maxLookups, answer) ==
    /\ syncReq.pending
    /\   IF answer.kind = "body" /\ answer.ok /\ answer.success
         THEN LET lookup == LookupInvoked(syncReq.manualCallId, Null,
                                          syncReq.driver, TRUE)
              IN  /\ Len(lookups) < maxLookups
                  /\ alert' = Alert(MsgSynced, <<syncReq.callId>>)
                  /\ currentCallId' = syncReq.callId
                  /\ isFetchingResults' = TRUE
                  /\ lookups' = Append(lookups, lookup)
                  /\ UNCHANGED isSyncing
         ELSE /\ alert' = Alert(MsgSyncFailed, <<SyncFailedMessage(answer)>>)
              /\ isSyncing' = FALSE
              /\ UNCHANGED <<currentCallId, isFetchingResults, lookups>>
    /\ syncReq' = None
    /\ UNCHANGED web
    /\ UNCHANGED <<agent_prompts, driverInfo, agentConfig, callResults, isCallInProgress,
                   manualCallId, showManualLookup, startReq, polls, fetches>>

syncResponse(answer) == syncResponseWithin(MaxLookups, answer)

----------------------------------------------------------------------------
(* Specifications.  Each explores the handlers above from a state the      *)
(* component can be in, within the bounds named at the top.                *)

\* the form once the user has filled it in
InitReady ==
    /\ driverInfo = [name |-> "Ali",
                     phone |-> formatPhoneNumber(<<"0", "3", "0", "0", "1", "2",
                                                   "3", "4", "5", "6", "7">>),
                     loadNumber |-> "L1"]
    /\ agentConfig = [prompt |-> "cfg", logic |-> "cfg"]
    /\ callResults = NoResult
    /\ isCallInProgress = FALSE
    /\ currentCallId = Null
    /\ isFetchingResults = FALSE
    /\ manualCallId = <<>>
    /\ isSyncing = FALSE
    /\ showManualLookup = FALSE
    /\ alert = NoAlert
    /\ startReq = None
    /\ polls = <<>>
    /\ fetches = <<>>
    /\ lookups = <<>>
    /\ syncReq = None
    /\ web = NoWebCall
    /\ agent_prompts = NoRows

InitLookup ==
    /\ driverInfo = [name |-> "Ali",
                     phone |-> formatPhoneNumber(<<"0", "3", "0", "0", "1", "2",
                                                   "3", "4", "5", "6", "7">>),
                     loadNumber |-> "L1"]
    /\ agentConfig = [prompt |-> "cfg", logic |-> "cfg"]
    /\ callResults = NoResult
    /\ isCallInProgress = FALSE
    /\ currentCallId = Null
    /\ isFetchingResults = FALSE
    /\ manualCallId = <<>>
    /\ isSyncing = FALSE
    /\ showManualLookup = TRUE
    /\ alert = NoAlert
    /\ startReq = None
    /\ polls = <<>>
    /\ fetches = <<>>
    /\ lookups = <<>>
    /\ syncReq = None
    /\ web = NoWebCall
    /\ agent_prompts = NoRows

\* Starting calls: the form, startTestCall and the poll loops it schedules,
\* each loop for its first MaxSessionTicks ticks.
Next ==
    \/ handleInputChange
    \/ handlePromptChange
    \/ handleLogicChange
    \/ toggleManualLookup
    \/ startTestCall(MaxCalls)
    \/ \E answer \in CreateAnswers : startCallResponse(answer)
    \/ \E l \in DOMAIN polls : pollForCallCompletion(l)
    \/ \E l \in DOMAIN polls : \E answer \in StatusAnswers :
          pollTick(l, MaxSessionTicks, answer)
    \/ \E l \in DOMAIN polls : \E answer \in StatusAnswers :
          pollStatusResponse(l, answer)
    \/ \E i \in DOMAIN fetches : \E answer \in FetchAnswers(fetches[i]) :
          fetchResponse(i, answer)

Spec == Init /\ [][Next]_vars

\* The manual lookup panel, shown, next to a started call.
NextLookup ==
    \/ startTestCall(MaxLookupCalls)
    \/ \E answer \in CreateAnswers : startCallResponse(answer)
    \/ \E l \in DOMAIN polls : pollForCallCompletion(l)
    \/ \E l \in DOMAIN polls : \E answer \in StatusAnswers :
          pollTick(l, MaxLookupTicks, answer)
    \/ \E l \in DOMAIN polls : \E answer \in StatusAnswers :
          pollStatusResponse(l, answer)
    \/ \E i \in DOMAIN fetches : \E answer \in FetchAnswers(fetches[i]) :
          fetchResponse(i, answer)
    \/ setManualCallId
    \/ manualFetchResults
    \/ \E i \in DOMAIN lookups : \E answer \in StatusAnswers :
          lookupStatusResponse(i, answer)
    \/ \E i \in DOMAIN lookups : \E answer \in FetchAnswers(lookups[i]) :
          lookupFetchResponse(i, answer)
    \/ syncCallFromRetell
    \/ \E answer \in SyncAnswers : syncResponse(answer)

SpecLookup == InitLookup /\ [][NextLookup]_vars

\* The poll loop of one call, to its attempt ceiling and MaxExtraTicks ticks
\* beyond.
NextPoll ==
    \/ startTestCall(1)
    \/ \E answer \in CreateAnswers : startCallResponse(answer)
    \/ \E l \in DOMAIN polls : pollForCallCompletion(l)
    \/ \E l \in DOMAIN polls : \E answer \in StatusAnswers :
          pollTick(l, maxAttempts + MaxExtraTicks, answer)
    \/ \E l \in DOMAIN polls : \E answer \in StatusAnswers :
          pollStatusResponse(l, answer)
    \/ \E i \in DOMAIN fetches : \E answer \in FetchAnswers(fetches[i]) :
          fetchResponse(i, answer)

SpecPoll == InitReady /\ [][NextPoll]_vars

\* One call with its poll loop, the manual lookup of it or of another call,
\* and the results panel.
NextResults ==
    \/ startTestCall(1)
    \/ \E answer \in CreateAnswers : startCallResponse(answer)
    \/ \E l \in DOMAIN polls : pollForCallCompletion(l)
    \/ \E l \in DOMAIN polls : \E answer \in StatusAnswers :
          pollTick(l, 1, answer)
    \/ \E l \in DOMAIN polls : \E answer \in StatusAnswers :
          pollStatusResponse(l, answer)
    \/ \E i \in DOMAIN fetches : \E answer \in FetchAnswers(fetches[i]) :
          fetchResponse(i, answer)
    \/ clearResults
    \/ setManualCallId
    \/ manualFetchResults
    \/ \E i \in DOMAIN lookups : \E answer \in StatusAnswers :
          lookupStatusResponse(i, answer)
    \/ \E i \in DOMAIN lookups : \E answer \in FetchAnswers(lookups[i]) :
          lookupFetchResponse(i, answer)

SpecResults == InitLookup /\ [][NextResults]_vars

\* The web call of a started call: the results panel with the
\* WebCallInterface it renders, and the SDK.
NextWeb ==
    \/ startTestCall(MaxCalls)
    \/ \E answer \in CreateAnswers : startCallResponse(answer)
    \/ clearResults
    \/ toggleTokenExpansion
    \/ mountWebCallInterface
    \/ \E stopFails \in BOOLEAN : unmountWebCallInterface(stopFails)
    \/ scriptOnload
    \/ scriptOnerror
    \/ scriptTimeout
    \/ startCall
    \/ callStarted
    \/ \E resolved \in BOOLEAN : startCallSettled(resolved)
    \/ callEnded
    \/ callError
    \/ \E stopFails \in BOOLEAN : endCall(stopFails)

SpecWeb == InitReady /\ [][NextWeb]_vars


----------------------------------------------------------------------------
(* Properties of the poll loop, under SpecPoll.                            *)

\* C1: when the backend answers the first 59 status requests of a loop with
\* a non-terminal status and the 60th with completed or ended, the loop
\* issues no 61st status request, performs fetchCallResults at most once and
\* never raises the "taking longer than expected" notice.
C1_TerminalOnLastAttempt ==
    \A l \in DOMAIN polls :
        polls[l].hist = "late" =>
            /\ polls[l].attempts <= maxAttempts
            /\ polls[l].nFetch <= 1
            /\ polls[l].nLonger = 0

\* C2: when the backend answers every status request of a loop with a
\* non-terminal status, the loop issues no more than 60 status requests and
\* performs fetchCallResults at most once.
C2_SixtyAttemptsOneFetch ==
    \A l \in DOMAIN polls :
        polls[l].hist = "quiet" =>
            /\ polls[l].attempts <= maxAttempts
            /\ polls[l].nFetch <= 1

\* C3, as claimed: a loop that has stopped without a terminal status (every
\* fetchCallResults it performed came with the "taking longer" notice) has
\* performed a fetchCallResults and raised that notice, also when its last
\* status request failed.
C3_CeilingAlwaysFetches ==
    \A l \in DOMAIN polls :
        (polls[l].timer = "cleared" /\ polls[l].nFetch = polls[l].nLonger) =>
            (polls[l].nFetch >= 1 /\ polls[l].nLonger >= 1)

\* C3, amended: a status response handled once the attempts have reached the
\* ceiling always clears the timer; a non-terminal status then raises the
\* "taking longer" notice and invokes fetchCallResults once, whereas a failed
\* status request raises "Unable to get call status" and invokes no
\* fetchCallResults.
C3_CeilingOutcome ==
    [][\A l \in DOMAIN polls : \A answer \in StatusAnswers :
          ( /\ polls[l].attempts >= maxAttempts
            /\ ~IsTerminal(answer)
            /\ pollStatusResponse(l, answer) )
          => /\ polls'[l].timer = "cleared"
             /\ IF answer = Throw
                THEN /\ alert'.msg = MsgUnable
                     /\ fetches' = fetches
                ELSE /\ alert'.msg = MsgLonger
                     /\ Len(fetches') = Len(fetches) + 1
                     /\ fetches'[Len(fetches')].callId = polls[l].callId
                     /\ fetches'[Len(fetches')].stage = "detail"]_vars

\* the failed last attempt: the loop has stopped at the ceiling on "Unable
\* to get call status" without any fetchCallResults
C3_Witness ==
    /\ alert.msg = MsgUnable
    /\ \E l \in DOMAIN polls :
          /\ polls[l].timer = "cleared"
          /\ polls[l].attempts = maxAttempts
          /\ polls[l].nFetch = 0

----------------------------------------------------------------------------
(* Properties of starting calls, under Spec.                               *)

\* C5: at most one poll loop has its interval timer running.
C5_AtMostOneActivePoll ==
    Cardinality({l \in DOMAIN polls : polls[l].timer = "interval"}) <= 1


\* C8: a click on "Start Test Call" with the driver name, the phone, the load
\* number, the agent prompt or the agent logic empty raises a validation
\* alert and sends no createCall request; the displayed results, the current
\* call id, the in-progress flag and the poll loops stay as they are.
C8_ValidationBlocksStart ==
    [][ ( /\ \/ driverInfo.name = ""
             \/ driverInfo.phone = <<>>
             \/ driverInfo.loadNumber = ""
             \/ agentConfig.prompt = ""
             \/ agentConfig.logic = ""
          /\ startTestCall(MaxCalls) )
        => /\ alert'.msg \in {MsgFillDriver, MsgConfigure}
           /\ startReq' = startReq
           /\ ~startReq'.pending
           /\ callResults' = callResults
           /\ currentCallId' = currentCallId
           /\ isCallInProgress' = isCallInProgress
           /\ polls' = polls ]_vars

\* the validation alert raised while the results of an earlier call are
\* displayed and its poll loop runs
C8_Witness ==
    /\ alert.msg = MsgFillDriver
    /\ callResults # NoResult
    /\ currentCallId # Null
    /\ \E l \in DOMAIN polls : polls[l].timer = "interval"

----------------------------------------------------------------------------
(* Properties of the manual lookup and of a failed start, under SpecLookup.*)

\* the text between the first and the last character of s that is no blank
Stripped(s) ==
    LET solid == {k \in DOMAIN s : s[k] # " "}
    IN  IF solid = {} THEN <<>>
        ELSE SubSeq(s, CHOOSE k \in solid : \A j \in solid : k <= j,
                       CHOOSE k \in solid : \A j \in solid : k >= j)

\* C6: when the status request of manualFetchResults is answered with a
\* non-terminal status, the lookup returns without a request for the call
\* details or the transcript, reports the status as still active, and leaves
\* the displayed results and the current call id unchanged.
C6_ActiveLookupFetchesNothing ==
    [][\A i \in DOMAIN lookups : \A answer \in StatusAnswers :
          ( /\ answer \notin {"completed", "ended", Throw}
            /\ lookupStatusResponse(i, answer) )
          => /\ alert'.msg = MsgStillActive
             /\ alert'.detail = <<(<<answer>>)>>
             /\ lookups' = RemoveAt(lookups, i)
             /\ fetches' = fetches
             /\ callResults' = callResults
             /\ currentCallId' = currentCallId ]_vars

\* the lookup of a started call has reported it still active, and the record
\* written at its creation is still displayed
C6_Witness ==
    /\ alert.msg = MsgStillActive
    /\ lookups = <<>>
    /\ callResults # NoResult
    /\ currentCallId # Null
    /\ callResults.callId = currentCallId

\* C7: a click on "Fetch Call Results" targets the manual id stripped of its
\* surrounding blanks when that is not empty, whatever the current call id;
\* else the current call id when there is one; else it sends no request.
C7_ManualIdTakesPrecedence ==
    [][ manualFetchResults
        => IF Stripped(manualCallId) # <<>>
           THEN /\ Len(lookups') = Len(lookups) + 1
                /\ lookups'[Len(lookups')].callId = Stripped(manualCallId)
                /\ lookups'[Len(lookups')].stage = "status"
           ELSE IF currentCallId # Null /\ currentCallId # <<>>
           THEN /\ Len(lookups') = Len(lookups) + 1
                /\ lookups'[Len(lookups')].callId = currentCallId
                /\ lookups'[Len(lookups')].stage = "status"
           ELSE /\ lookups' = lookups
                /\ alert'.msg = MsgEnterId
                /\ isFetchingResults' = isFetchingResults ]_vars

\* a lookup of the manual id "b", typed with blanks around it, while the
\* call started last is "a"
C7_Witness ==
    /\ currentCallId = <<"a">>
    /\ manualCallId = <<" ", "b", " ">>
    /\ \E i \in DOMAIN lookups :
          /\ lookups[i].callId = <<"b">>
          /\ lookups[i].stage = "status"
          /\ ~lookups[i].bySync

\* C9, as claimed: after the alert of a failed createCall the current call
\* id is empty, the in-progress flag is cleared and no poll loop exists.
C9_NoCallIdAfterFailure ==
    alert.msg = MsgCallFailed =>
        /\ currentCallId = Null
        /\ ~isCallInProgress
        /\ polls = <<>>

\* C9, amended: startTestCall clears the current call id before it sends
\* createCall; while the request is pending only a manual lookup or a sync
\* that completes changes the current call id; and the failure response
\* raises "Call failed" with the error text of the body when it has one,
\* leaves the current call id and the poll loops as they are and clears the
\* in-progress flag.
C9_FailedStartStoresNoId ==
    [][ /\ (~startReq.pending /\ startReq'.pending) => currentCallId' = Null
        /\ (startReq.pending /\ startReq'.pending /\ currentCallId' # currentCallId)
             => alert'.msg \in {MsgFetched, MsgSynced}
        /\ \A answer \in CreateAnswers :
             (answer.kind # "ok" /\ startCallResponse(answer))
             => /\ alert'.msg = MsgCallFailed
                /\ answer.error # Undefined => alert'.detail = <<(<<answer.error>>)>>
                /\ currentCallId' = currentCallId
                /\ polls' = polls
                /\ ~isCallInProgress'
                /\ ~startReq'.pending ]_vars

\* createCall has failed with the error text of the backend while a manual
\* lookup that completed in the meantime had stored its id
C9_Witness ==
    /\ alert = Alert(MsgCallFailed, <<(<<"quota exceeded">>)>>)
    /\ currentCallId # Null
    /\ polls = <<>>
    /\ ~isCallInProgress

\* the record displayed is the degraded one of callId
IsDegraded(results, callId) ==
    /\ results # NoResult
    /\ results.callId = callId
    /\ results.status = "completed"
    /\ results.duration = <<"U", "n", "k", "n", "o", "w", "n">>
    /\ KeyError \in DOMAIN results.keyInformation

\* C10: when the request for the call details fails inside fetchCallResults,
\* the degraded record of that call id is displayed and no failure reaches
\* the caller: a poll loop raises no alert, manualFetchResults goes on to
\* report success and returns, and so does the syncCallFromRetell awaiting it.
C10_DetailFailureDegrades ==
    [][ /\ \A i \in DOMAIN fetches :
             (fetches[i].stage = "detail" /\ fetchResponse(i, Rejected))
             => /\ IsDegraded(callResults', fetches[i].callId)
                /\ alert' = NoAlert
                /\ fetches' = RemoveAt(fetches, i)
        /\ \A i \in DOMAIN lookups :
             (lookups[i].stage = "detail" /\ lookupFetchResponse(i, Rejected))
             => /\ IsDegraded(callResults', lookups[i].callId)
                /\ alert'.msg = MsgFetched
                /\ lookups' = RemoveAt(lookups, i)
                /\ ~isFetchingResults'
                /\ lookups[i].bySync => ~isSyncing' ]_vars

\* the degraded record of a manually looked-up call is displayed and the
\* lookup has reported success
C10_Witness ==
    /\ alert.msg = MsgFetched
    /\ currentCallId # Null
    /\ IsDegraded(callResults, currentCallId)
    /\ ~isFetchingResults

----------------------------------------------------------------------------
(* Properties of the assembled results.                                    *)

\* the record displayed is built from the call detail callData of callId,
\* without a processed transcript
IsFromDetailOnly(results, callId, callData) ==
    /\ results # NoResult
    /\ results.callId = callId
    /\ "rawCallData" \in DOMAIN results
    /\ results.rawCallData = callData
    /\ results.processedTranscript = Absent
    /\ results.duration = calculateDuration(callData.started_at, callData.ended_at)
    /\ KeyError \notin DOMAIN results.keyInformation
    /\ KeyCallSummary \in DOMAIN results.keyInformation
         => callData.call_analysis # Absent

\* C11: once the request for the call details has succeeded, a transcript
\* request that fails or is answered non-OK still ends fetchCallResults with
\* a record built from the call details displayed, its processed transcript
\* absent; an OK answer gives the record that transcript.
C11_TranscriptFailureKeepsResult ==
    [][ /\ \A i \in DOMAIN fetches : \A answer \in TranscriptAnswers :
             (fetches[i].stage = "transcript" /\ fetchResponse(i, answer))
             => IF answer.kind = "ok"
                THEN /\ callResults'.rawCallData = fetches[i].callData
                     /\ callResults'.processedTranscript = answer.body
                ELSE IsFromDetailOnly(callResults', fetches[i].callId,
                                      fetches[i].callData)
        /\ \A i \in DOMAIN lookups : \A answer \in TranscriptAnswers :
             (lookups[i].stage = "transcript" /\ lookupFetchResponse(i, answer))
             => /\ alert'.msg = MsgFetched
                /\ IF answer.kind = "ok"
                   THEN /\ callResults'.rawCallData = lookups[i].callData
                        /\ callResults'.processedTranscript = answer.body
                   ELSE IsFromDetailOnly(callResults', lookups[i].callId,
                                         lookups[i].callData) ]_vars

\* a record with the status and the duration of the call details and no
\* processed transcript is displayed after a poll loop fetched it
C11_Witness ==
    /\ callResults # NoResult
    /\ "rawCallData" \in DOMAIN callResults
    /\ callResults.status = "ended"
    /\ callResults.duration = <<"2", ":", "0", "5">>
    /\ callResults.processedTranscript = Absent
    /\ \E l \in DOMAIN polls : polls[l].nFetch = 1 /\ polls[l].callId = callResults.callId
    /\ fetches = <<>>

\* C12: every record displayed has the driver name, the load number and a
\* call status among its key information.
C12_KeyInformationComplete ==
    callResults # NoResult =>
        {KeyDriverName, KeyLoadNumber, KeyCallStatus}
            \subseteq DOMAIN callResults.keyInformation

\* C13: in a record assembled with a processed transcript, the entry
\* "Call Summary" holds the summary of that transcript, whatever fields the
\* call analysis has.
C13_TranscriptEntriesKept ==
    ( /\ callResults # NoResult
      /\ "processedTranscript" \in DOMAIN callResults
      /\ callResults.processedTranscript # Absent
      /\ TruthyStr(callResults.processedTranscript.summary) )
    => callResults.keyInformation[KeyCallSummary]
           = <<callResults.processedTranscript.summary>>

----------------------------------------------------------------------------
(* Properties of syncCallFromRetell, under SpecLookup.                     *)

\* C14: a click on "Sync from Retell AI" sends one sync request, for the
\* manual id stripped of its blanks, and nothing else.  When the backend
\* answers OK with success, the manualFetchResults that follows sends its
\* status request for exactly that id; when it answers non-OK or without
\* success, or the request fails, "Failed to sync call" is raised with the
\* detail, else the message, of the answer, and no lookup and no
\* fetchCallResults is started.
C14_SyncChainsIntoLookup ==
    [][ /\ syncCallFromRetell
           => /\ Stripped(manualCallId) # <<>>
              /\ ~syncReq.pending /\ syncReq'.pending
              /\ syncReq'.callId = Stripped(manualCallId)
              /\ lookups' = lookups /\ fetches' = fetches
        /\ \A answer \in SyncAnswers :
             syncResponse(answer)
             => /\ ~syncReq'.pending
                /\ fetches' = fetches
                /\ IF answer.kind = "body" /\ answer.ok /\ answer.success
                   THEN /\ alert' = Alert(MsgSynced, <<syncReq.callId>>)
                        /\ Len(lookups') = Len(lookups) + 1
                        /\ SubSeq(lookups', 1, Len(lookups)) = lookups
                        /\ lookups'[Len(lookups')].callId = syncReq.callId
                        /\ lookups'[Len(lookups')].stage = "status"
                   ELSE /\ lookups' = lookups
                        /\ ~isSyncing'
                        /\ alert'.msg = MsgSyncFailed
                        /\ answer.detail # Undefined
                             => alert'.detail = <<(<<answer.detail>>)>>
                        /\ (answer.detail = Undefined /\ answer.message # Undefined)
                             => alert'.detail = <<(<<answer.message>>)>> ]_vars

\* the lookup chained to a successful sync of "b" asks for the status of
\* "b", although the field has been changed to "a" since the click
C14_Witness ==
    /\ manualCallId = <<"a">>
    /\ isSyncing
    /\ \E i \in DOMAIN lookups :
          /\ lookups[i].bySync
          /\ lookups[i].callId = <<"b">>
          /\ lookups[i].stage = "status"

----------------------------------------------------------------------------
(* Properties of the error handling and of concurrent fetches, under       *)
(* SpecResults.                                                            *)

\* C15: a non-2xx answer to the status request of manualFetchResults is not
\* reported as a call that is still active, and no record is displayed that
\* was assembled from a non-2xx answer to the request for the call details.
C15_NotOkIsAnError ==
    /\ alert.msg = MsgStillActive => alert.detail # <<(<<NotOkStatus>>)>>
    /\ (callResults # NoResult /\ "rawCallData" \in DOMAIN callResults)
         => callResults.rawCallData # NotOkCallData

\* C16: a fetchCallResults run by a poll loop and a manualFetchResults that
\* are in flight together are about the same call.
C16_RacingFetchesSameCall ==
    \A i \in DOMAIN fetches : \A j \in DOMAIN lookups :
        fetches[i].callId = lookups[j].callId

\* the fields of the record formattedResults
FormattedFields ==
    {"callId", "status", "duration", "timestamp", "keyInformation",
     "transcript", "rawCallData", "processedTranscript"}

\* C17: a fetchCallResults that succeeds displays its own record and nothing
\* of the record displayed before: the fields are those of formattedResults,
\* each with the value assembled from the answers, and the access token of
\* the ready record is gone.  A click on "Clear Results" leaves no record
\* displayed.
C17_ResultsReplacedWholesale ==
    [][ /\ \A i \in DOMAIN fetches : \A answer \in TranscriptAnswers :
             (fetches[i].stage = "transcript" /\ fetchResponse(i, answer))
             => /\ DOMAIN callResults' = FormattedFields
                /\ callResults'.callId = fetches[i].callId
                /\ callResults'.rawCallData = fetches[i].callData
                /\ KeyAccessToken \notin DOMAIN callResults'.keyInformation
        /\ \A i \in DOMAIN lookups : \A answer \in TranscriptAnswers :
             (lookups[i].stage = "transcript" /\ lookupFetchResponse(i, answer))
             => /\ DOMAIN callResults' = FormattedFields
                /\ callResults'.callId = lookups[i].callId
                /\ callResults'.rawCallData = lookups[i].callData
                /\ KeyAccessToken \notin DOMAIN callResults'.keyInformation
        /\ clearResults => callResults' = NoResult ]_vars

\* the record fetched by the poll loop of a call is displayed, without the
\* access token the ready record of that call had
C17_Witness ==
    /\ callResults # NoResult
    /\ DOMAIN callResults = FormattedFields
    /\ callResults.callId = <<"a">>
    /\ currentCallId = <<"a">>
    /\ \E l \in DOMAIN polls : polls[l].callId = <<"a">> /\ polls[l].nFetch = 1
    /\ lookups = <<>> /\ fetches = <<>>

----------------------------------------------------------------------------
(* Properties of the session, under Spec.                                  *)

\* C18: while the poll loop of a started call runs or its results are being
\* fetched, no step changes the driver information.
C18_DriverInfoFrozen ==
    [][ ( \/ \E l \in DOMAIN polls : polls[l].timer # "cleared"
          \/ fetches # <<>> )
        => driverInfo' = driverInfo ]_vars

----------------------------------------------------------------------------
(* Properties of WebCallInterface, under SpecWeb.                          *)

\* C19: a render of CallResults while WebCallInterface stays mounted stops
\* no live call and constructs no client when the component has one.
C19_RerenderKeepsClient ==
    [][ toggleTokenExpansion
        => /\ web'.mounted
           /\ web.live # NoClient => web'.live = web.live
           /\ web.ref # NoClient => (web'.ref = web.ref /\ web'.made = web.made)
      ]_vars

\* C20: whenever the component reports that the SDK is unavailable, its
\* status is "error".
C20_SdkUnavailableIsErrorStatus ==
    web.error \in {ErrScript, ErrNoGlobal, ErrNotLoaded}
        => web.callStatus = "error"

----------------------------------------------------------------------------
\* C21: a connect on a session whose client startCall itself constructed
\* (none was constructed at load) follows the SDK's events like a connect
\* on a client constructed at load: when the SDK's startCall has started the
\* call and the client emits call_started, the status becomes connected
C21_LateClientFollowsEvents ==
    [][(callStarted /\ web.connecting \in web.bare)
          => (web'.callStatus = "connected" /\ web'.isConnected)]_vars

----------------------------------------------------------------------------
\* the values setCallStatus is called with, lines 6, 77, 86, 96, 153, 172
\* and 183
CallStatuses == {"ready", "connecting", "connected", "ended", "error"}

\* C22: the status of the call view is always one of ready, connecting,
\* connected, ended and error; it is ready when the view is created, and
\* once a connect has changed it, it is ready again only in a view that is
\* created anew
C22_StatusValues ==
    /\ [](web.callStatus \in CallStatuses)
    /\ web.callStatus = "ready"
    /\ [][(web.callStatus # "ready" /\ web'.callStatus = "ready")
             => (~web.mounted /\ web'.mounted)]_vars
    /\ [][(~web.mounted /\ web'.mounted) => web'.callStatus = "ready"]_vars

C22_Witness ==
    /\ web.mounted
    /\ web.callStatus = "ended"
    /\ web.made > 0

\* C23: when the call view is torn down and stopCall of its client throws,
\* the teardown still completes: the script element is removed, the view is
\* gone, and nothing is raised to the user
C23_TeardownSurvivesStopFailure ==
    [][(unmountWebCallInterface(TRUE) /\ web.ref # NoClient)
          => (web'.script = "none" /\ ~web'.mounted /\ alert' = NoAlert)]_vars

C23_Witness ==
    /\ ~web.mounted
    /\ web.live # NoClient
    /\ web.live = web.ref
    /\ web.script = "none"

----------------------------------------------------------------------------
(* The phone field on its own: every text the field can deliver to         *)
(* handleInputChange.                                                      *)

MaxPhoneLen == 13       \* length of the field's text up to which keys are typed

\* texts pasted over the whole field
PhonePastes ==
    { <<>>,
      <<"9", "2">>,
      <<"+", "9", "2", " ", "3", "0", "0", " ", "1", "2", "3", "4", "5", "6", "7">>,
      <<"0", "3", "0", "0", "-", "1", "2", "3", "4", "5", "6", "7">>,
      <<"(", "3", "0", "0", ")", " ", "1", "2", "3", "-", "4", "5", "6", "7">>,
      <<"a", "b", "c">>,
      <<"1">>,
      <<"0", "3", "0", "0", " ", "1", "2", "3", "4", "5", "6", "7", "8">>,
      <<"+", "1", " ", "(", "4", "1", "5", ")", " ", "5", "5", "5", "-", "0", "1", "0", "0", " ", "e", "x", "t", " ", "2", "2">>,
      <<"0", "3">>,
      <<"0", "0", "9", "2", " ", "3", "0", "0", " ", "1", "2", "3", "4", "5", "6", "7">> }

\* e.target.value of the phone input: the text displayed with one more key
\* (0 or 3) typed at its end, or a pasted text
PhoneValues(current) ==
    PhonePastes \cup
    (IF Len(current) <= MaxPhoneLen
     THEN {Append(current, k) : k \in {"0", "3"}} ELSE {})

\* handleInputChange with name === 'phone', lines 16-26
handleInputChangePhone(value) ==
    /\ driverInfo' = [driverInfo EXCEPT !.phone = formatPhoneNumber(value)]
    /\ alert' = NoAlert
    /\ UNCHANGED web
    /\ UNCHANGED <<agent_prompts, agentConfig, callResults, isCallInProgress, currentCallId,
                   isFetchingResults, manualCallId, isSyncing, showManualLookup,
                   startReq, polls, fetches, lookups, syncReq>>

NextPhone == \E value \in PhoneValues(driverInfo.phone) : handleInputChangePhone(value)

SpecPhone == Init /\ [][NextPhone]_vars

\* the digits of a text, in order
RECURSIVE DigitsOf(_)
DigitsOf(raw) ==
    IF raw = <<>> THEN <<>>
    ELSE IF Head(raw) \in Digits THEN <<Head(raw)>> \o DigitsOf(Tail(raw))
    ELSE DigitsOf(Tail(raw))

\* the rule list of the normalisation, first match wins
NormalizeRule(raw) ==
    LET d == DigitsOf(raw)
        n == Len(d)
    IN  CASE n >= 2 /\ d[1] = "9" /\ d[2] = "2" -> <<"+">> \o d
          [] n = 11 /\ d[1] = "0" /\ d[2] = "3" -> <<"+", "9", "2">> \o Tail(d)
          [] n = 10 /\ d[1] = "3" -> <<"+", "9", "2">> \o d
          [] n > 0 -> <<"+">> \o d
          [] OTHER -> <<>>

\* C24: the text stored for the phone field is the one the rule list gives
\* on the digits of the text entered: digits starting with 92 get '+' in
\* front; else 11 digits starting with 03 lose the 0 and get '+92'; else 10
\* digits starting with 3 get '+92'; else any digits get '+'; no digit gives
\* the empty text
C24_NormalizeFollowsRules ==
    [][\A value \in PhoneValues(driverInfo.phone) :
          handleInputChangePhone(value)
             => driverInfo'.phone = NormalizeRule(value)]_vars

\* 03000000000 typed key by key
C24_Witness ==
    driverInfo.phone = <<"+", "9", "2", "3", "0", "0", "0", "0", "0", "0", "0", "0", "0">>

\* C25: a phone text that is stored and not empty is an E.164 number: '+',
\* then at most 15 digits of which the first is not 0
C25_FormattedPhoneIsE164 ==
    driverInfo.phone # <<>> =>
        /\ Head(driverInfo.phone) = "+"
        /\ Len(driverInfo.phone) \in 2..16
        /\ \A i \in 2..Len(driverInfo.phone) : driverInfo.phone[i] \in Digits
        /\ driverInfo.phone[2] # "0"

----------------------------------------------------------------------------
(* The result assembly on its own: one call whose details the backend      *)
(* answers with every transcript text and every pair of dates below.       *)

\* raw_transcript of the call details: null, or a text
RawTranscripts ==
    { Null, <<>>,
      <<"A", "g", "e", "n", "t", ":", " ", "h", "i", "\n", "o", "k">>,
      <<"A", "g", "e", "n", "t", ":", " ", "h", "i">>,
      <<"a", "g", "e", "n", "t", ":", " ", "h", "i">>,
      <<"D", "R", "I", "V", "E", "R", ":", " ", "o", "k">>,
      <<"D", "r", "i", "v", "e", "r", ":", "o", "k">>,
      <<"A", "s", "s", "i", "s", "t", "a", "n", "t", ":", " ", "a">>,
      <<"U", "s", "e", "r", ":", " ", "b">>,
      <<"H", "u", "m", "a", "n", ":", " ", "c">>,
      <<"A", "g", "e", "n", "t", ":">>,
      <<"A", "g", "e", "n", "t", ":", " ">>,
      <<"B", "o", "t", ":", " ", "h", "i">>,
      <<"h", "e", "l", "l", "o">>,
      <<" ", "h", "e", "l", "l", "o", " ">>,
      <<"\n">>,
      <<" ">>,
      <<"\n", "\n">>,
      <<"A", "g", "e", "n", "t", ":", " ", "h", "i", "\n", "\n", "D", "r", "i", "v", "e", "r", ":", " ", "o", "k", "\n">>,
      <<"a", "\n", "b">>,
      <<"b", "\n", "a">>,
      <<"A", "g", "e", "n", "t", ":", " ", "a", "\r", "b">>,
      <<"A", "g", "e", "n", "t", ":", " ", "h", "i", "\r", "\n", "D", "r", "i", "v", "e", "r", ":", " ", "o", "k">>,
      <<"A", "g", "e", "n", "t", "s", ":", " ", "h", "i">>,
      <<"A", "g", "e", "n", "t", " ", ":", " ", "h", "i">>,
      <<"x", " ", "A", "g", "e", "n", "t", ":", " ", "h", "i">>,
      <<"A", "g", "e", "n", "t", ":", " ", "h", "i", ":", " ", "t", "h", "e", "r", "e">>,
      <<"A", "g", "e", "n", "t", ":", " ", " ", "h", "i">>,
      <<"H", "u", "m", "a", "n", ":", " ", "x", "\n", " ", " ", "\n", "\t", "U", "s", "e", "r", ":", " ", "y", " ", " ">>,
      <<"[", "]">>,
      <<"{", "}">>,
      <<" ", "[", "]">>,
      <<" ", "{", "}">>,
      <<"[", "n", "o", "t", " ", "j", "s", "o", "n">>,
      <<"{", "b", "a", "d">>,
      <<"[">>,
      <<"{">>,
      <<"[", "{", "\"", "s", "p", "e", "a", "k", "e", "r", "\"", ":", "\"", "A", "g", "e", "n", "t", "\"", ",", "\"", "m", "e", "s", "s", "a", "g", "e", "\"", ":", "\"", "h", "i", "\"", "}", "]">>,
      <<" ", "[", "{", "\"", "s", "p", "e", "a", "k", "e", "r", "\"", ":", "\"", "A", "g", "e", "n", "t", "\"", ",", "\"", "m", "e", "s", "s", "a", "g", "e", "\"", ":", "\"", "h", "i", "\"", "}", "]">>,
      <<"\n", "[", "]">>,
      <<"[", "]", "\n">>,
      <<"[", "n", "o", "t", "\n", "j", "s", "o", "n">>,
      <<"{", "\"", "a", "\n", "b">>,
      <<"[", "{", "\"", "s", "p", "e", "a", "k", "e", "r", "\"", ":", "\"", "A", "g", "e", "n", "t", "\"", ",", "\"", "m", "e", "s", "s", "a", "g", "e", "\"", ":", "\"", "h", "i", "\"", "}", "]", "x">> }

\* started_at and ended_at of the call details: missing, or a date
Times == {Absent, Time(0), Time(1000), Time(59999), Time(60000), Time(126000),
          Time(3599000), Time(3600000)}

AssemblyCallData ==
    { [status |-> "ended", started_at |-> Time(1000), ended_at |-> Time(126000),
       call_analysis |-> Absent, raw_transcript |-> t] : t \in RawTranscripts }
    \cup
    { [status |-> "ended", started_at |-> s, ended_at |-> e,
       call_analysis |-> Absent, raw_transcript |-> Null] : s \in Times, e \in Times }

AssemblyAnswers(task) ==
    IF task.stage = "detail" THEN AssemblyCallData \cup {Rejected}
    ELSE TranscriptAnswers

NextAssembly ==
    \/ startTestCall(1)
    \/ \E answer \in CreateAnswers : startCallResponse(answer)
    \/ \E l \in DOMAIN polls : pollForCallCompletion(l)
    \/ \E l \in DOMAIN polls : \E answer \in StatusAnswers :
          pollTick(l, 1, answer)
    \/ \E l \in DOMAIN polls : \E answer \in StatusAnswers :
          pollStatusResponse(l, answer)
    \/ \E i \in DOMAIN fetches : \E answer \in AssemblyAnswers(fetches[i]) :
          fetchResponse(i, answer)

SpecAssembly == InitReady /\ [][NextAssembly]_vars

\* the results displayed are assembled from call details
Assembled == callResults # NoResult /\ "rawCallData" \in DOMAIN callResults

RawTranscript == callResults.rawCallData.raw_transcript

\* the text looks structured: after trimming it starts with '[' or '{'
LooksStructured(text) ==
    \/ StartsWith(Trim(text), <<"[">>)
    \/ StartsWith(Trim(text), <<"{">>)

\* the entry of a line by the rule of the transcript format: the label and
\* the whole remainder of a '<Speaker>: <message>' line, else a System entry
RuleEntry(line) ==
    IF SpeakerMatch(line) # {}
    THEN LET sp == CHOOSE x \in SpeakerMatch(line) : TRUE
         IN  [speaker |-> SubSeq(line, 1, Len(sp)),
              message |-> TrimLeft(SubSeq(line, Len(sp) + 2, Len(line)))]
    ELSE [speaker |-> <<"System">>, message |-> line]

RECURSIVE RuleEntries(_)
RuleEntries(lines) ==
    IF lines = <<>> THEN <<>>
    ELSE (IF Trim(Head(lines)) # <<>> THEN <<RuleEntry(Trim(Head(lines)))>> ELSE <<>>)
         \o RuleEntries(Tail(lines))

\* C26: of a freeform transcript text the entries displayed are one per
\* non-empty trimmed line, in the order of the lines: speaker and the
\* remainder for a '<Speaker>: <message>' line, a System entry with the line
\* otherwise; and the one System entry with the whole text when no line
\* gives an entry
C26_FreeformEntries ==
    (Assembled /\ Truthy(RawTranscript) /\ ~LooksStructured(RawTranscript)) =>
        callResults.transcript =
            IF RuleEntries(SplitLines(RawTranscript)) # <<>>
            THEN RuleEntries(SplitLines(RawTranscript))
            ELSE << [speaker |-> <<"System">>, message |-> RawTranscript] >>

\* C27: a transcript text that, trimmed, starts with '[' or '{' and parses
\* to an array is displayed as that array, also with white space before the
\* bracket
C27_StructuredAfterTrim ==
    (Assembled /\ Truthy(RawTranscript) /\ LooksStructured(RawTranscript)
        /\ JsonParse(RawTranscript).kind = "array") =>
        callResults.transcript = JsonParse(RawTranscript).value

\* C28: a transcript text that starts with '[' or '{' and does not parse is
\* displayed as the one System entry with the text itself; no transcript
\* text, null or empty, as the one System entry saying that the transcript
\* is not available yet.  Assembling the result does not fail in either case.
C28_TranscriptFallbacks ==
  /\ [][\A i \in DOMAIN fetches : \A answer \in TranscriptAnswers :
          (fetches[i].stage = "transcript" /\ fetchResponse(i, answer))
             => (callResults' # NoResult
                 /\ "rawCallData" \in DOMAIN callResults'
                 /\ callResults'.rawCallData = fetches[i].callData)]_vars
  /\ [](Assembled =>
        /\ (/\ Truthy(RawTranscript)
            /\ \/ StartsWith(RawTranscript, <<"[">>)
               \/ StartsWith(RawTranscript, <<"{">>)
            /\ JsonParse(RawTranscript).kind = "error")
              => callResults.transcript =
                    << [speaker |-> <<"System">>, message |-> RawTranscript] >>
        /\ ~Truthy(RawTranscript)
              => callResults.transcript =
                    << [speaker |-> <<"System">>,
                        message |-> <<"Transcript not available yet. It may take a few minutes to process.">>] >>)

C28_Witness ==
    /\ Assembled
    /\ RawTranscript = <<"[", "n", "o", "t", "\n", "j", "s", "o", "n">>

\* C29: the duration displayed is "Unknown" when a date is missing, and
\* otherwise minutes, ':' and two digits of seconds from 00 to 59, whatever
\* the two dates
C29_DurationFormat ==
    Assembled =>
        LET d == callResults.duration
            n == Len(d)
        IN  IF callResults.rawCallData.started_at = Absent
               \/ callResults.rawCallData.ended_at = Absent
            THEN d = <<"U", "n", "k", "n", "o", "w", "n">>
            ELSE /\ n >= 4
                 /\ d[n - 2] = ":"
                 /\ d[n - 1] \in {"0", "1", "2", "3", "4", "5"}
                 /\ d[n] \in Digits
                 /\ \A k \in 1..(n - 3) : d[k] \in Digits

----------------------------------------------------------------------------
(* The poll loop with its scheduling: the timeout and the interval fire,   *)
(* and every request gets its response or its rejection.                   *)

PollFairness ==
    /\ WF_vars(\E l \in DOMAIN polls : pollForCallCompletion(l))
    /\ WF_vars(\E l \in DOMAIN polls : \E answer \in StatusAnswers :
                  pollTick(l, maxAttempts + MaxExtraTicks, answer))
    /\ WF_vars(\E l \in DOMAIN polls : \E answer \in StatusAnswers :
                  pollStatusResponse(l, answer))

SpecPollFair == SpecPoll /\ PollFairness

\* C30: the timer of a poll loop is cleared only by the response to one of
\* its status requests that reports a terminal status or comes at or after
\* the last attempt; once cleared it stays cleared and the loop sends no
\* further status request; and when every status request is answered, every
\* poll loop that was started is stopped eventually
C30_PollLoopStops ==
    /\ [][\A l \in DOMAIN polls :
            (polls[l].timer # "cleared" /\ polls'[l].timer = "cleared")
               => \E answer \in StatusAnswers :
                     /\ pollStatusResponse(l, answer)
                     /\ IsTerminal(answer) \/ polls[l].attempts >= maxAttempts]_vars
    /\ [][\A l \in DOMAIN polls :
            polls[l].timer = "cleared"
               => (polls'[l].timer = "cleared"
                   /\ polls'[l].attempts = polls[l].attempts)]_vars
    /\ (polls # <<>>) ~> (polls # <<>> /\ polls[1].timer = "cleared")

\* a loop stopped by the exhausted budget, without any terminal status
C30_Witness ==
    /\ polls # <<>>
    /\ polls[1].timer = "cleared"
    /\ polls[1].nFetch = 0
    /\ polls[1].nUnable = 1

----------------------------------------------------------------------------
\* a poll loop sends its first status request in this step
FirstStatusRequest(l) ==
    /\ l \in DOMAIN polls
    /\ polls[l].attempts = 0
    /\ polls'[l].attempts = 1

\* the success response of createCall: the id is stored and one poll loop
\* for it is scheduled, the loops of earlier calls left as they are
StoresIdAndSchedulesOneLoop ==
    \A answer \in CreateAnswers :
       (answer.kind = "ok" /\ startCallResponse(answer)) =>
          /\ currentCallId' = CallIdOf(Len(polls) + 1)
          /\ Len(polls') = Len(polls) + 1
          /\ SubSeq(polls', 1, Len(polls)) = polls
          /\ polls'[Len(polls')].callId = currentCallId'
          /\ polls'[Len(polls')].attempts = 0
          /\ polls'[Len(polls')].elapsed = 0
          /\ \A l \in DOMAIN polls : polls[l].callId # currentCallId'

\* poll loops come from the success response of createCall only
LoopsOnlyFromSuccess ==
    Len(polls') # Len(polls) =>
       \E answer \in CreateAnswers : answer.kind = "ok" /\ startCallResponse(answer)

\* C31, as claimed: a successful createCall stores the id returned and
\* schedules exactly one poll loop for it, and the loop sends its first
\* status request when one 5-second delay has passed since the success
C31_FirstRequestAfterOneDelay ==
    [][ /\ StoresIdAndSchedulesOneLoop
        /\ LoopsOnlyFromSuccess
        /\ \A l \in DOMAIN polls : FirstStatusRequest(l) => polls'[l].elapsed = 1 ]_vars

\* C31, amended: the first status request is sent when two 5-second delays
\* have passed, that of the setTimeout and the first period of the
\* setInterval
C31_FirstRequestAfterTwoDelays ==
    [][ /\ StoresIdAndSchedulesOneLoop
        /\ LoopsOnlyFromSuccess
        /\ \A l \in DOMAIN polls : FirstStatusRequest(l) => polls'[l].elapsed = 2 ]_vars

\* the second call's loop has sent its first status request
C31_Witness ==
    /\ Len(polls) = 2
    /\ currentCallId = CallIdOf(2)
    /\ polls[2].attempts = 1
    /\ polls[2].elapsed = 2

\* C32: one poll loop, also with several status requests in flight at once,
\* invokes fetchCallResults at most once, raises at most one notice and
\* sends at most 60 status requests
C32_OneFetchOneNoticeSixtyRequests ==
    \A l \in DOMAIN polls :
       /\ polls[l].nFetch <= 1
       /\ polls[l].nLonger + polls[l].nUnable <= 1
       /\ polls[l].attempts <= maxAttempts

\* C33: once createCall has succeeded for a new call, the results displayed
\* are never those of a call started before it
C33_NoResultOfEarlierCall ==
    \A l \in DOMAIN polls :
       (l < Len(polls) /\ callResults # NoResult)
          => callResults.callId # polls[l].callId

\* C34: in every state of the call view, isConnected and isConnecting are
\* not both true, isConnected is true only with the status connected and
\* isConnecting only with the status connecting
C34_FlagsAgreeWithStatus ==
    /\ ~(web.isConnected /\ web.isConnecting)
    /\ web.isConnected => web.callStatus = "connected"
    /\ web.isConnecting => web.callStatus = "connecting"

----------------------------------------------------------------------------
(* The three operations with a busy flag: one createCall, and the manual   *)
(* lookup and the sync with up to MaxBusyLookups lookups in flight.        *)

\* the answers of the backend that decide the way out of an operation:
\* success, a failure the backend reports, and a rejected request
NextBusy ==
    \/ startTestCall(1)
    \/ \E answer \in CreateAnswers : startCallResponse(answer)
    \/ setManualCallId
    \/ manualFetchResultsWithin(MaxBusyLookups)
    \/ \E i \in DOMAIN lookups : \E answer \in {"active", "ended", Throw} :
          lookupStatusResponse(i, answer)
    \/ \E i \in DOMAIN lookups :
          \E answer \in IF lookups[i].stage = "detail"
                        THEN {NotOkCallData, Rejected}
                        ELSE {a \in TranscriptAnswers : a.kind = "throw"} :
             lookupFetchResponse(i, answer)
    \/ syncCallFromRetell
    \/ \E answer \in {a \in SyncAnswers : a.message = Undefined /\ a.ok = a.success} :
          syncResponseWithin(MaxBusyLookups, answer)

SpecBusy == InitLookup /\ [][NextBusy]_vars

\* an operation sets its flag together with its first request, that is
\* after its validation, and only when the flag is clear
FlagSetWithRequest ==
    /\ (~isCallInProgress /\ isCallInProgress')
          => (~startReq.pending /\ startReq'.pending)
    /\ (~isSyncing /\ isSyncing') => (~syncReq.pending /\ syncReq'.pending)
    /\ (~isFetchingResults /\ isFetchingResults') => Len(lookups') = Len(lookups) + 1

\* no operation is started while its flag is set
NotStartedWhileBusy ==
    /\ (~startReq.pending /\ startReq'.pending) => ~isCallInProgress
    /\ (~syncReq.pending /\ syncReq'.pending) => ~isSyncing
    /\ Len(lookups') > Len(lookups) => ~isFetchingResults

\* no flag is set without a request of its operation outstanding
NoFlagLeftSet ==
    /\ isCallInProgress => startReq.pending
    /\ isFetchingResults => lookups # <<>>
    /\ isSyncing => (syncReq.pending \/ \E i \in DOMAIN lookups : lookups[i].bySync)

\* C35: startTestCall, manualFetchResults and syncCallFromRetell each set
\* their flag only after their validation and clear it on every way out;
\* none is started while its flag is set, so that at most one createCall is
\* in flight; and no flag stays set when the requests have been answered
C35_BusyFlags ==
    /\ [][FlagSetWithRequest /\ NotStartedWhileBusy]_vars
    /\ []NoFlagLeftSet

----------------------------------------------------------------------------
\* C36: formatting is idempotent: the text stored for the phone field, the
\* formatted form of whatever was entered, is left as it is when it is
\* formatted again
C36_NormalizeIdempotent ==
    formatPhoneNumber(driverInfo.phone) = driverInfo.phone

\* 3000000003 typed key by key, stored with the country code
C36_Witness ==
    driverInfo.phone = <<"+", "9", "2", "3", "0", "0", "0", "0", "0", "0", "0", "0", "3">>

----------------------------------------------------------------------------
(* The table agent_prompts of 001_initial_schema.sql, lines 14-22.  A row  *)
(* is its id, agent_id and is_active; is_active has no NOT NULL and is      *)
(* "true", "false" or "null".                                               *)

AgentIds == {"agent_1", "agent_2"}
Actives == {"true", "false", "null"}
RowIds == 1..MaxRows

\* UNIQUE(agent_id, is_active), line 21: no two rows agree on both columns;
\* a null is_active equals no other
UniqueAgentActive(table) ==
    \A r1 \in table : \A r2 \in table :
       (r1.id # r2.id /\ r1.agent_id = r2.agent_id /\ r1.is_active = r2.is_active)
          => r1.is_active = "null"

\* a statement whose result is table: it is carried out, or rejected by the
\* constraint, and then the table stays as it is
Statement(table) ==
    /\ agent_prompts' = IF UniqueAgentActive(table)
                        THEN [rows |-> table, error |-> "none"]
                        ELSE [agent_prompts EXCEPT !.error = "unique_violation"]
    /\ UNCHANGED <<driverInfo, agentConfig, callResults, isCallInProgress,
                   currentCallId, isFetchingResults, manualCallId, isSyncing,
                   showManualLookup, alert, startReq, polls, fetches, lookups,
                   syncReq, web>>

\* the table after INSERT INTO agent_prompts (agent_id, is_active), with the
\* id the default of line 15 gives
Inserted(agent_id, is_active) ==
    LET id == CHOOSE i \in RowIds :
                 /\ \A r \in agent_prompts.rows : r.id # i
                 /\ \A j \in 1..(i - 1) : \E r \in agent_prompts.rows : r.id = j
    IN  agent_prompts.rows
           \cup {[id |-> id, agent_id |-> agent_id, is_active |-> is_active]}

\* the table after UPDATE agent_prompts SET is_active = ... WHERE id = ...
Updated(id, is_active) ==
    {IF r.id = id THEN [r EXCEPT !.is_active = is_active] ELSE r :
        r \in agent_prompts.rows}

insertAgentPrompt(agent_id, is_active) ==
    /\ Cardinality(agent_prompts.rows) < MaxRows
    /\ Statement(Inserted(agent_id, is_active))

updateAgentPrompt(id, is_active) ==
    /\ \E r \in agent_prompts.rows : r.id = id /\ r.is_active # is_active
    /\ Statement(Updated(id, is_active))

deleteAgentPrompt(id) ==
    /\ \E r \in agent_prompts.rows : r.id = id
    /\ Statement({r \in agent_prompts.rows : r.id # id})

NextSchema ==
    \/ \E agent_id \in AgentIds : \E is_active \in Actives :
          insertAgentPrompt(agent_id, is_active)
    \/ \E id \in RowIds : \E is_active \in Actives : updateAgentPrompt(id, is_active)
    \/ \E id \in RowIds : deleteAgentPrompt(id)

SpecSchema == Init /\ [][NextSchema]_vars

\* at most one row of an agent is active
OneActivePerAgent(table) ==
    \A r1 \in table : \A r2 \in table :
       (r1.agent_id = r2.agent_id /\ r1.is_active = "true" /\ r2.is_active = "true")
          => r1.id = r2.id

\* C37: the constraint of agent_prompts is the rule 'only one active prompt
\* per agent': every agent has at most one active row, and a statement is
\* rejected only when it would give an agent a second active row
C37_OnlyOneActivePrompt ==
    /\ []OneActivePerAgent(agent_prompts.rows)
    /\ [][ /\ \A agent_id \in AgentIds : \A is_active \in Actives :
                (insertAgentPrompt(agent_id, is_active)
                    /\ agent_prompts'.error = "unique_violation")
                   => ~OneActivePerAgent(Inserted(agent_id, is_active))
           /\ \A id \in RowIds : \A is_active \in Actives :
                (updateAgentPrompt(id, is_active)
                    /\ agent_prompts'.error = "unique_violation")
                   => ~OneActivePerAgent(Updated(id, is_active)) ]_vars

====
